---- MODULE Spec2Model ----
(***************************************************************************)
(* Voice Mode (adamfe/demo_app): the application state machine of          *)
(* src/src/core/state_machine.py, used sequentially (Spec, SpecClock,     *)
(* SpecQuery) and from several threads at once (SpecConc), and the         *)
(* handlers of src/src/app.py that drive it (SpecApp); the pending-request *)
(* slots of MainThreadBridge in src/src/app.py (SpecBridge, SpecBridgeConc) *)
(* and the key listener of src/src/core/hotkey_manager.py (SpecHotkey);    *)
(* the recorder of src/src/core/audio_recorder.py (SpecRecorder).  A       *)
(* client that never resets the machine is SpecNoReset, and SpecAppFair    *)
(* is the application with every started task running to its end.         *)
(*                                                                         *)
(* Conventions                                                             *)
(*  - An AppState is the string of its enum name; Python's None is "None". *)
(*  - A payload (keyword arguments, state_data) is a set of <<key, value>>  *)
(*    pairs; the empty dict is {}.                                         *)
(*  - on_state_enter / on_state_exit are dicts from state to callable; the *)
(*    model keeps their key sets.  What a registered callable does when it *)
(*    is invoked (return, or raise an Exception) is chosen at invocation.  *)
(*  - Python booleans returned to the caller are "True" / "False"; a call  *)
(*    that returns nothing gives "None"; an exception that leaves the      *)
(*    call gives "raise".                                                  *)
(*  - calls, last and successes observe the calls of Spec and SpecClock,   *)
(*    where one call runs at a time; frames holds, for SpecConc, each      *)
(*    thread's place in its handler and inside transition_to.              *)
(***************************************************************************)
EXTENDS Integers, Sequences, FiniteSets, TLC

\* ------------------------------------------------------------------ bounds
\* successful transitions recorded in state_history
MaxHist == 4
\* largest reading of the wall clock
MaxClock == 1
\* successful transitions recorded in state_history while the application runs
MaxAppHist == 9
\* transcription task threads alive at the same time
MaxTasks == 2
\* bridge requests between two drains
MaxRequests == 3
\* chunks the audio callback delivers in one recording
MaxChunks == 3

\* ------------------------------------------------------------------ values
AppState ==
    {"INITIALIZING", "IDLE", "RECORDING", "PROCESSING",
     "REFINING", "COPYING", "ERROR", "PAUSED"}

\* keyword payloads passed to transition_to: none, or error=<message>
Payloads ==
    { {}, {<<"error", "m">>} }

\* states for which register_callback is called in Spec: RECORDING (the one
\* state with an enter and an exit callback in app.py and in
\* test_state_machine) and IDLE
CallbackStates ==
    {"IDLE", "RECORDING"}

\* what the engine returns: result["text"] and result["language"]
\* ("unknown" when the model reports none)
Texts == {"hello world", "hi"}
Languages == {"en", "unknown"}
EngineResults == [text : Texts, language : Languages]

\* str(e) of the exceptions the application meets
InitError == "init failed"
NoEngineError == "Whisper engine not initialized or no audio to process"
ModelNotLoaded == "Model not loaded. Call load_model() first."
TranscribeError == "transcribe failed"
ClipboardError == "pbcopy failed"
NotificationError == "notification failed"

TaskIds == 1..MaxTasks

\* HotkeyManager.hotkey_type: the four types the listener handles and one
\* it does not
HotkeyTypes ==
    {"caps_lock", "option+space", "control+command+space", "fn", "custom"}

\* keys of the press and release events: "alt", "ctrl" and "cmd" stand for
\* the left, right and generic variants, "f13" for Key.f13, "a" for any
\* other key
Keys == {"alt", "space", "ctrl", "cmd", "f13", "a"}

\* the chunks (indata) the audio stream delivers: arrays of samples
Chunks == {<<1>>, <<2, 3>>}

\* audio levels passed to the bridge
Levels == {"0.2", "0.8"}

\* threads that call the bridge
BridgeThreads == {"hotkey", "audio", "ui"}

VARIABLES
    current_state,      \* StateMachine.current_state
    previous_state,     \* StateMachine.previous_state
    state_history,      \* StateMachine.state_history: Seq of [state, time]
    on_state_enter,     \* keys of StateMachine.on_state_enter
    on_state_exit,      \* keys of StateMachine.on_state_exit
    state_data,         \* StateMachine.state_data
    clock,              \* what datetime.now() returns at this moment
    calls,              \* callback invocations made by the latest operation
    last,               \* the latest operation: its arguments and result
    successes,          \* targets of the transition_to calls that returned True
    frames,             \* per thread: place in its handler, position in
                        \* transition_to and transition_to's locals
    app                 \* VoiceModeApp and HotkeyManager fields

smvars == <<current_state, previous_state, state_history, state_data>>
cbvars == <<on_state_enter, on_state_exit>>
vars == <<current_state, previous_state, state_history, on_state_enter,
          on_state_exit, state_data, clock, calls, last, successes, frames, app>>

NoOp ==
    [op |-> "none", target |-> "None", kwargs |-> {}, from |-> "None",
     ret |-> "None"]

\* ------------------------------------------------------- StateMachine

\* the valid_transitions dict and its .get(from_state, [])
ValidTransitions(from_state) ==
    CASE from_state = "INITIALIZING" -> {"IDLE"}
      [] from_state = "IDLE"         -> {"RECORDING"}
      [] from_state = "RECORDING"    -> {"PROCESSING", "IDLE"}
      [] from_state = "PROCESSING"   -> {"REFINING", "COPYING"}
      [] from_state = "REFINING"     -> {"COPYING"}
      [] from_state = "COPYING"      -> {"IDLE"}
      [] OTHER                       -> {}

IsValidTransition_OnlyTable(from_state, to_state) ==
    to_state \in ValidTransitions(from_state)

IsValidTransition_IdleSelfLoop(from_state, to_state) ==
    IF to_state \in {"ERROR", "PAUSED"} THEN TRUE
    ELSE IF to_state = "IDLE" /\ from_state \in {"ERROR", "PAUSED", "IDLE"} THEN TRUE
    ELSE to_state \in ValidTransitions(from_state)

\* StateMachine._is_valid_transition
IsValidTransition(from_state, to_state) ==
    IF to_state \in {"ERROR", "PAUSED"} THEN TRUE
    ELSE IF to_state = "IDLE" /\ from_state \in {"ERROR", "PAUSED"} THEN TRUE
    ELSE to_state \in ValidTransitions(from_state)

\* StateMachine.__init__
InitStateMachine ==
    /\ current_state = "INITIALIZING"
    /\ previous_state = "None"
    /\ state_history = <<>>
    /\ on_state_enter = {}
    /\ on_state_exit = {}
    /\ state_data = {}

\* one invocation of a registered callback, as the callback sees it
Invocation(kind, state, args, seen_state, seen_history, raised) ==
    [kind |-> kind, state |-> state, args |-> args, seen_state |-> seen_state,
     seen_len |-> Len(seen_history), raised |-> raised]

\* the exit callback called without the try/except around it
ExitRaiseEscapes_NoTry(raised) ==
    raised

\* whether an exception raised by the exit callback leaves transition_to
\* (try ... except Exception: print)
ExitRaiseEscapes(raised) ==
    FALSE

\* the enter callback called without the try/except around it
EnterRaiseEscapes_NoTry(raised) ==
    raised

\* whether an exception raised by the enter callback leaves transition_to
EnterRaiseEscapes(raised) ==
    FALSE

\* the exit callback of the current state, called with no arguments before
\* the update
ExitCalls(from_state, raised) ==
    IF from_state \in on_state_exit
    THEN << Invocation("exit", from_state, {}, current_state, state_history, raised) >>
    ELSE << >>

\* the enter callback called before the state update
EnterCalls_BeforeUpdate(new_state, kwargs, raised) ==
    IF new_state \in on_state_enter
    THEN << Invocation("enter", new_state, kwargs, current_state, state_history, raised) >>
    ELSE << >>

\* the enter callback of the new state, called with **kwargs after the
\* update and the history append
EnterCalls(new_state, kwargs, raised) ==
    IF new_state \in on_state_enter
    THEN << Invocation("enter", new_state, kwargs, current_state', state_history', raised) >>
    ELSE << >>

\* self.state_data.update(kwargs) in place of the assignment
StoredData_Update(old_data, kwargs) ==
    {p \in old_data : \A q \in kwargs : q[1] # p[1]} \cup kwargs

\* self.state_data = kwargs
StoredData(old_data, kwargs) ==
    kwargs

\* self.state_history.append((new_state, datetime.now()))
Recorded(history, new_state, now) ==
    Append(history, [state |-> new_state, time |-> now])

\* previous_state assigned before the validation
Rejected_AfterUpdate(new_state, kwargs) ==
    /\ ~IsValidTransition(current_state, new_state)
    /\ previous_state' = current_state
    /\ calls' = << >>
    /\ last' = [op |-> "transition_to", target |-> new_state, kwargs |-> kwargs,
                from |-> current_state, ret |-> "False"]
    /\ UNCHANGED <<current_state, state_history, state_data, cbvars, clock, successes, frames, app>>

\* transition_to, invalid target: print and return False
Rejected(new_state, kwargs) ==
    /\ ~IsValidTransition(current_state, new_state)
    /\ calls' = << >>
    /\ last' = [op |-> "transition_to", target |-> new_state, kwargs |-> kwargs,
                from |-> current_state, ret |-> "False"]
    /\ UNCHANGED <<smvars, cbvars, clock, successes, frames, app>>

\* transition_to, valid target
Accepted(new_state, kwargs) ==
    /\ IsValidTransition(current_state, new_state)
    /\ Len(state_history) < MaxHist
    /\ \E exit_raises \in (IF current_state \in on_state_exit THEN BOOLEAN ELSE {FALSE}),
          enter_raises \in (IF new_state \in on_state_enter THEN BOOLEAN ELSE {FALSE}) :
         IF exit_raises /\ ExitRaiseEscapes(exit_raises)
         THEN /\ calls' = ExitCalls(current_state, exit_raises)
              /\ last' = [op |-> "transition_to", target |-> new_state,
                          kwargs |-> kwargs, from |-> current_state, ret |-> "raise"]
              /\ UNCHANGED <<smvars, cbvars, clock, successes, frames, app>>
         ELSE /\ previous_state' = current_state
              /\ current_state' = new_state
              /\ state_data' = StoredData(state_data, kwargs)
              /\ state_history' = Recorded(state_history, new_state, clock)
              /\ calls' = ExitCalls(current_state, exit_raises)
                            \o EnterCalls(new_state, kwargs, enter_raises)
              /\ last' = [op |-> "transition_to", target |-> new_state,
                          kwargs |-> kwargs, from |-> current_state,
                          ret |-> IF enter_raises /\ EnterRaiseEscapes(enter_raises)
                                  THEN "raise" ELSE "True"]
              /\ successes' = IF last'.ret = "True"
                               THEN Append(successes, new_state) ELSE successes
              /\ UNCHANGED <<cbvars, clock, frames, app>>

\* StateMachine.transition_to(new_state, **kwargs)
TransitionTo(new_state, kwargs) ==
    \/ Rejected(new_state, kwargs)
    \/ Accepted(new_state, kwargs)

\* StateMachine.register_callback(state, on_enter, on_exit); on_enter and
\* on_exit say whether a callable (rather than None) is passed
RegisterCallback(state, on_enter, on_exit) ==
    /\ on_state_enter' = IF on_enter THEN on_state_enter \cup {state} ELSE on_state_enter
    /\ on_state_exit' = IF on_exit THEN on_state_exit \cup {state} ELSE on_state_exit
    /\ calls' = << >>
    /\ last' = [op |-> "register_callback", target |-> state, kwargs |-> {},
                from |-> current_state, ret |-> "None"]
    /\ UNCHANGED <<smvars, clock, successes, frames, app>>

\* reset that also clears the history
Reset_ClearsHistory ==
    /\ current_state' = "IDLE"
    /\ previous_state' = "None"
    /\ state_data' = {}
    /\ state_history' = << >>
    /\ calls' = << >>
    /\ last' = [op |-> "reset", target |-> "None", kwargs |-> {},
                from |-> current_state, ret |-> "None"]
    /\ UNCHANGED <<cbvars, clock, successes, frames, app>>

\* StateMachine.reset()
Reset ==
    /\ current_state' = "IDLE"
    /\ previous_state' = "None"
    /\ state_data' = {}
    /\ calls' = << >>
    /\ last' = [op |-> "reset", target |-> "None", kwargs |-> {},
                from |-> current_state, ret |-> "None"]
    /\ UNCHANGED <<state_history, cbvars, clock, successes, frames, app>>

\* ---------------------------------------------- sequential use of the API
\* threads of the application that call transition_to
Threads ==
    {"hotkey", "task", "ui", "init"}

\* a thread that is not inside transition_to
IdleFrame ==
    [site |-> "none", pc |-> "idle", new_state |-> "None", kwargs |-> {},
     loaded |-> "None", ret |-> "None"]

\* where each thread is when the application has been constructed: the
\* listener and the UI wait for events, initialisation is about to run, no
\* transcription task exists
InitFrames ==
    [t \in Threads |->
        [IdleFrame EXCEPT !.site = CASE t = "init" -> "start"
                                     [] t = "task" -> "none"
                                     [] OTHER      -> "wait"]]

\* no transcription task thread
NoTask ==
    [site |-> "none", transcription |-> "None", detected_language |-> "None",
     launched_by |-> 0]

\* no start-to-notification cycle is being followed
NoCycle ==
    [stage |-> "none", base |-> 0, clip |-> 0, notes |-> 0, task |-> 0,
     text |-> "None", language |-> "None"]

\* HotkeyManager.__init__ (is_recording is hk_recording, running is
\* listening); emitted is the latest signal given to the callbacks
InitHotkeyManager ==
    [hotkey_type |-> "caps_lock", caps_lock_state |-> FALSE,
     pressed_keys |-> {}, emitted |-> "None"]

\* AudioRecorder.__init__; returned is the array the latest stop_recording
\* returned (empty for None), delivered the chunks given to _audio_callback
\* since the latest successful start_recording and before the stop that
\* matches it (window)
InitAudioRecorder ==
    [is_recording |-> FALSE, audio_data |-> << >>, returned |-> << >>,
     delivered |-> << >>, window |-> FALSE]

\* a thread that is not inside a bridge method
IdleBridgeThread ==
    [pc |-> "idle", method |-> "None", arg |-> "None",
     show |-> FALSE, hide |-> FALSE, level |-> "None"]

\* MainThreadBridge.__init__
InitBridge ==
    [pending_show |-> FALSE, pending_hide |-> FALSE,
     pending_audio_level |-> "None", lock |-> "None",
     since |-> << >>, drained |-> << >>,
     threads |-> [t \in BridgeThreads |-> IdleBridgeThread],
     atomic |-> [pending_show |-> FALSE, pending_hide |-> FALSE,
                 pending_audio_level |-> "None"],
     expected |-> <<FALSE, FALSE, "None">>]

\* VoiceModeApp.__init__: hotkey_manager, audio_recorder and whisper_engine
\* are still None, no listener runs, HotkeyManager.is_recording is False,
\* current_audio is None; nothing was written to the clipboard or notified.
\*   init             where initialize_components is
\*   rec_*, audio_data AudioRecorder.is_recording, AudioRecorder.audio_data,
\*                    and when start_recording was last called and what it
\*                    returned
\*   stops            how many times _on_stop_recording assigned
\*                    current_audio
\*   running          the _process_audio threads, their locals and the
\*                    assignment of current_audio that launched each
\*   cycle            the cycle being followed from its start signal
InitApp ==
    [hotkey_manager |-> FALSE, listening |-> FALSE, hk_recording |-> FALSE,
     init |-> "start",
     audio_recorder |-> FALSE, whisper_engine |-> "None",
     rec_is_recording |-> FALSE, audio_data |-> "empty",
     rec_started_in |-> "None", rec_started_at |-> 0,
     rec_start_ret |-> "None",
     current_audio |-> "None", stops |-> 0,
     clipboard |-> << >>, notifications |-> << >>,
     engine_calls |-> 0, tasks |-> 0,
     running |-> [id \in TaskIds |-> NoTask],
     cycle |-> NoCycle,
     qt_bridge |-> InitBridge,
     hotkey |-> InitHotkeyManager,
     recorder |-> InitAudioRecorder]

Init ==
    /\ InitStateMachine
    /\ clock = 0
    /\ calls = << >>
    /\ last = NoOp
    /\ successes = << >>
    /\ frames = InitFrames
    /\ app = InitApp

Next ==
    \/ \E s \in AppState, kw \in Payloads : TransitionTo(s, kw)
    \/ \E s \in CallbackStates, en \in BOOLEAN, ex \in BOOLEAN : RegisterCallback(s, en, ex)
    \/ Reset

Spec == Init /\ [][Next]_vars

\* a client that never calls reset()
NextNoReset ==
    \/ \E s \in AppState, kw \in Payloads : TransitionTo(s, kw)
    \/ \E s \in CallbackStates, en \in BOOLEAN, ex \in BOOLEAN : RegisterCallback(s, en, ex)

SpecNoReset == Init /\ [][NextNoReset]_vars

\* ------------------------------------------- the wall clock of the history
\* time passes between two calls
Tick ==
    /\ clock < MaxClock
    /\ clock' = clock + 1
    /\ UNCHANGED <<smvars, cbvars, calls, last, successes, frames, app>>

\* the wall clock is set back between two calls: datetime.now() is the
\* naive local time, which the end of daylight saving time, a time
\* synchronisation step or the user moves backwards
ClockSetBack ==
    /\ \E c \in 0..MaxClock : c < clock /\ clock' = c
    /\ UNCHANGED <<smvars, cbvars, calls, last, successes, frames, app>>

NextClock ==
    \/ \E s \in AppState, kw \in Payloads : TransitionTo(s, kw)
    \/ Reset
    \/ Tick
    \/ ClockSetBack

SpecClock == Init /\ [][NextClock]_vars

\* ---------------------------------- the pending slots of MainThreadBridge
\* self._pending_show = True; self._pending_hide = False
AfterShow(b) ==
    [b EXCEPT !.pending_show = TRUE, !.pending_hide = FALSE]

\* request_hide_recording that leaves _pending_show alone
AfterHide_KeepsShow(b) ==
    [b EXCEPT !.pending_hide = TRUE]

\* self._pending_hide = True; self._pending_show = False
AfterHide(b) ==
    [b EXCEPT !.pending_hide = TRUE, !.pending_show = FALSE]

\* request_update_audio_level that keeps a level already pending
AfterLevel_KeepFirst(b, level) ==
    [b EXCEPT !.pending_audio_level = IF @ = "None" THEN level ELSE @]

\* self._pending_audio_level = level
AfterLevel(b, level) ==
    [b EXCEPT !.pending_audio_level = level]

\* show, hide, level as get_and_clear_pending_operations reads them
Snapshot(b) ==
    <<b.pending_show, b.pending_hide, b.pending_audio_level>>

\* the three slots reset to False, False, None
Cleared(b) ==
    [b EXCEPT !.pending_show = FALSE, !.pending_hide = FALSE,
              !.pending_audio_level = "None"]

\* ------------------------------- transition_to called from several threads
\* VoiceModeApp._setup_state_callbacks: the callbacks the application
\* registers in its constructor
SetupStateCallbacks ==
    /\ on_state_enter = {"IDLE", "RECORDING", "PROCESSING", "ERROR"}
    /\ on_state_exit = {"RECORDING"}

\* the payload of the application's calls: error=str(e) with ERROR, nothing
\* otherwise
CallPayload(s) ==
    IF s = "ERROR" THEN {<<"error", "m">>} ELSE {}

InFlight == {t \in Threads : frames[t].pc # "idle"}

\* thread t is at place site of its handler, outside transition_to
AtSite(t, site) ==
    /\ frames[t].site = site
    /\ frames[t].pc = "idle"

\* thread t is at place site and its transition_to call has returned
Returned(t, site) ==
    /\ AtSite(t, site)
    /\ frames[t].ret # "None"

\* thread t is at label pc inside transition_to
At(t, label) == frames[t].pc = label

Goto(t, label) ==
    frames' = [frames EXCEPT ![t].pc = label]

\* thread t moves to place site of its handler
Move(t, site) ==
    frames' = [frames EXCEPT ![t] = [IdleFrame EXCEPT !.site = site]]

\* thread t calls self.state_machine.transition_to(s, ...) at place site
Call(t, s, site) ==
    /\ Len(state_history) + Cardinality(InFlight) < MaxHist
    /\ frames' = [frames EXCEPT ![t] = [IdleFrame EXCEPT !.site = site,
                                                         !.pc = "validate",
                                                         !.new_state = s,
                                                         !.kwargs = CallPayload(s)]]

\* if not self._is_valid_transition(self.current_state, new_state): return False
Validate(t) ==
    /\ At(t, "validate")
    /\ frames' = [frames EXCEPT ![t] =
                    IF IsValidTransition(current_state, frames[t].new_state)
                    THEN [@ EXCEPT !.pc = "exit_check"]
                    ELSE [IdleFrame EXCEPT !.site = frames[t].site, !.ret = "False"]]
    /\ UNCHANGED <<smvars, cbvars, clock, calls, last, successes, app>>

\* if self.current_state in self.on_state_exit:
ExitCheck(t) ==
    /\ At(t, "exit_check")
    /\ Goto(t, IF current_state \in on_state_exit THEN "exit_call" ELSE "load_current")
    /\ UNCHANGED <<smvars, cbvars, clock, calls, last, successes, app>>

\* try: self.on_state_exit[self.current_state]() except Exception: print.
\* current_state is read again: when another thread changed it to a state
\* without exit callback the lookup raises KeyError, which is printed too.
\* The one exit callback registered is _on_recording_stop, which calls
\* qt_bridge.request_hide_recording().
ExitCall(t) ==
    /\ At(t, "exit_call")
    /\ Goto(t, "load_current")
    /\ app' = IF current_state = "RECORDING"
              THEN [app EXCEPT !.qt_bridge = AfterHide(@)]
              ELSE app
    /\ UNCHANGED <<smvars, cbvars, clock, calls, last, successes>>

\* self.previous_state = self.current_state: the read
LoadCurrent(t) ==
    /\ At(t, "load_current")
    /\ frames' = [frames EXCEPT ![t].pc = "store_previous",
                                ![t].loaded = current_state]
    /\ UNCHANGED <<smvars, cbvars, clock, calls, last, successes, app>>

\* self.previous_state = self.current_state: the write
StorePrevious(t) ==
    /\ At(t, "store_previous")
    /\ previous_state' = frames[t].loaded
    /\ Goto(t, "store_current")
    /\ UNCHANGED <<current_state, state_history, state_data, cbvars, clock,
                   calls, last, successes, app>>

\* self.current_state = new_state
StoreCurrent(t) ==
    /\ At(t, "store_current")
    /\ current_state' = frames[t].new_state
    /\ Goto(t, "store_data")
    /\ UNCHANGED <<previous_state, state_history, state_data, cbvars, clock,
                   calls, last, successes, app>>

\* self.state_data = kwargs
StoreData(t) ==
    /\ At(t, "store_data")
    /\ state_data' = StoredData(state_data, frames[t].kwargs)
    /\ Goto(t, "append")
    /\ UNCHANGED <<current_state, previous_state, state_history, cbvars, clock,
                   calls, last, successes, app>>

\* self.state_history.append((new_state, datetime.now()))
AppendHistory(t) ==
    /\ At(t, "append")
    /\ state_history' = Recorded(state_history, frames[t].new_state, clock)
    /\ Goto(t, "enter")
    /\ UNCHANGED <<current_state, previous_state, state_data, cbvars, clock,
                   calls, last, successes, app>>

\* if new_state in self.on_state_enter: try: callback(**kwargs) except: print.
\* _on_recording_start calls qt_bridge.request_show_recording(); the other
\* enter callbacks set titles only.
EnterCall(t) ==
    /\ At(t, "enter")
    /\ Goto(t, "return")
    /\ app' = IF frames[t].new_state = "RECORDING"
              THEN [app EXCEPT !.qt_bridge = AfterShow(@)]
              ELSE app
    /\ UNCHANGED <<smvars, cbvars, clock, calls, last, successes>>

\* print(...); return True
Return(t) ==
    /\ At(t, "return")
    /\ frames' = [frames EXCEPT ![t] =
                    [IdleFrame EXCEPT !.site = frames[t].site, !.ret = "True"]]
    /\ UNCHANGED <<smvars, cbvars, clock, calls, last, successes, app>>

\* one step of a transition_to call in progress
TransitionStep(t) ==
    \/ Validate(t)
    \/ ExitCheck(t)
    \/ ExitCall(t)
    \/ LoadCurrent(t)
    \/ StorePrevious(t)
    \/ StoreCurrent(t)
    \/ StoreData(t)
    \/ AppendHistory(t)
    \/ EnterCall(t)
    \/ Return(t)

\* initialize_components, on the thread main() starts: the hotkey manager
\* is created and started, or creating it raises
InitHotkey ==
    /\ AtSite("init", "start")
    /\ \/ /\ app' = [app EXCEPT !.hotkey_manager = TRUE, !.listening = TRUE]
          /\ Move("init", "init_rest")
       \/ /\ Call("init", "ERROR", "init_515")
          /\ UNCHANGED app
    /\ UNCHANGED <<smvars, cbvars, clock, calls, last, successes>>

\* initialize_components: recorder, model manager and engine are set up and
\* the model is loaded, then transition_to(IDLE); or one of them raises and
\* the except branch calls transition_to(ERROR, error=str(e))
InitRest ==
    /\ AtSite("init", "init_rest")
    /\ \/ Call("init", "IDLE", "init_509")
       \/ Call("init", "ERROR", "init_515")
    /\ UNCHANGED <<smvars, cbvars, clock, calls, last, successes, app>>

\* initialize_components returns
InitDone ==
    /\ \/ Returned("init", "init_509")
       \/ Returned("init", "init_515")
    /\ Move("init", "done")
    /\ UNCHANGED <<smvars, cbvars, clock, calls, last, successes, app>>

\* the running listener delivers a start signal (HotkeyManager.is_recording
\* goes from False to True and on_start_recording is called)
HotkeyStart ==
    /\ AtSite("hotkey", "wait")
    /\ app.listening
    /\ ~app.hk_recording
    /\ app' = [app EXCEPT !.hk_recording = TRUE]
    /\ Move("hotkey", "start_270")
    /\ UNCHANGED <<smvars, cbvars, clock, calls, last, successes>>

\* _on_start_recording: if not is_ready(): return; transition_to(RECORDING)
OnStartRecording ==
    /\ AtSite("hotkey", "start_270")
    /\ IF current_state = "IDLE"
       THEN Call("hotkey", "RECORDING", "start_275")
       ELSE Move("hotkey", "wait")
    /\ UNCHANGED <<smvars, cbvars, clock, calls, last, successes, app>>

\* _on_start_recording: on True the recorder is started; return
StartDone ==
    /\ Returned("hotkey", "start_275")
    /\ Move("hotkey", "wait")
    /\ UNCHANGED <<smvars, cbvars, clock, calls, last, successes, app>>

\* the running listener delivers a stop signal
HotkeyStop ==
    /\ AtSite("hotkey", "wait")
    /\ app.listening
    /\ app.hk_recording
    /\ app' = [app EXCEPT !.hk_recording = FALSE]
    /\ Move("hotkey", "stop_282")
    /\ UNCHANGED <<smvars, cbvars, clock, calls, last, successes>>

\* _on_stop_recording: if not is_state(RECORDING): return; the recorder is
\* stopped and returns a buffer or None; with a buffer
\* transition_to(PROCESSING), without transition_to(IDLE).  The branch with
\* a buffer is taken while no transcription task is running (one task
\* thread is modelled).
OnStopRecording ==
    /\ AtSite("hotkey", "stop_282")
    /\ IF current_state = "RECORDING"
       THEN \/ /\ AtSite("task", "none")
               /\ Call("hotkey", "PROCESSING", "stop_291")
            \/ Call("hotkey", "IDLE", "stop_300")
       ELSE Move("hotkey", "wait")
    /\ UNCHANGED <<smvars, cbvars, clock, calls, last, successes, app>>

\* _on_stop_recording: threading.Thread(target=self._process_audio).start(),
\* whatever transition_to(PROCESSING) returned
SpawnTask ==
    /\ Returned("hotkey", "stop_291")
    /\ frames' = [frames EXCEPT !["hotkey"] = [IdleFrame EXCEPT !.site = "wait"],
                                !["task"] = [IdleFrame EXCEPT !.site = "run"]]
    /\ UNCHANGED <<smvars, cbvars, clock, calls, last, successes, app>>

\* _on_stop_recording returns after transition_to(IDLE)
StopDone ==
    /\ Returned("hotkey", "stop_300")
    /\ Move("hotkey", "wait")
    /\ UNCHANGED <<smvars, cbvars, clock, calls, last, successes, app>>

\* _process_audio: the engine returns a result and transition_to(COPYING) is
\* called, or it raises and the except branch calls transition_to(ERROR)
Transcribe ==
    /\ AtSite("task", "run")
    /\ \/ Call("task", "COPYING", "task_331")
       \/ Call("task", "ERROR", "task_348")
    /\ UNCHANGED <<smvars, cbvars, clock, calls, last, successes, app>>

\* _process_audio: _copy_to_clipboard, then transition_to(IDLE); or the
\* clipboard write raises
CopyToClipboard ==
    /\ Returned("task", "task_331")
    /\ \/ Call("task", "IDLE", "task_337")
       \/ Call("task", "ERROR", "task_348")
    /\ UNCHANGED <<smvars, cbvars, clock, calls, last, successes, app>>

\* _process_audio: rumps.notification after the return to IDLE; when it
\* raises the except branch calls transition_to(ERROR)
Notify ==
    /\ Returned("task", "task_337")
    /\ \/ Move("task", "none")
       \/ Call("task", "ERROR", "task_348")
    /\ UNCHANGED <<smvars, cbvars, clock, calls, last, successes, app>>

\* _process_audio returns from its except branch
TaskFailed ==
    /\ Returned("task", "task_348")
    /\ Move("task", "none")
    /\ UNCHANGED <<smvars, cbvars, clock, calls, last, successes, app>>

\* toggle_pause, a menu click on the UI thread: if is_state(PAUSED)
\* transition_to(IDLE), else transition_to(PAUSED)
TogglePause ==
    /\ AtSite("ui", "wait")
    /\ IF current_state = "PAUSED"
       THEN Call("ui", "IDLE", "resume_398")
       ELSE Call("ui", "PAUSED", "pause_404")
    /\ UNCHANGED <<smvars, cbvars, clock, calls, last, successes, app>>

\* toggle_pause, resume branch: if self.hotkey_manager: start()
ResumeDone ==
    /\ Returned("ui", "resume_398")
    /\ app' = [app EXCEPT !.listening = app.hotkey_manager \/ @]
    /\ Move("ui", "wait")
    /\ UNCHANGED <<smvars, cbvars, clock, calls, last, successes>>

\* toggle_pause, pause branch: if self.hotkey_manager: stop()
PauseDone ==
    /\ Returned("ui", "pause_404")
    /\ app' = [app EXCEPT !.listening = ~app.hotkey_manager /\ @]
    /\ Move("ui", "wait")
    /\ UNCHANGED <<smvars, cbvars, clock, calls, last, successes>>

\* process_qt_operations, the 50 ms timer on the UI thread between two menu
\* handlers: the pending slots are read and cleared
ProcessQtOperations ==
    /\ AtSite("ui", "wait")
    /\ app.qt_bridge # Cleared(app.qt_bridge)
    /\ app' = [app EXCEPT !.qt_bridge = Cleared(@)]
    /\ UNCHANGED <<smvars, cbvars, clock, calls, last, successes, frames>>

\* the state after VoiceModeApp.__init__ and main()'s start of init_thread
InitConc ==
    /\ current_state = "INITIALIZING"
    /\ previous_state = "None"
    /\ state_history = << >>
    /\ state_data = {}
    /\ SetupStateCallbacks
    /\ clock = 0
    /\ calls = << >>
    /\ last = NoOp
    /\ successes = << >>
    /\ frames = InitFrames
    /\ app = InitApp

NextConc ==
    \/ \E t \in Threads : TransitionStep(t)
    \/ InitHotkey
    \/ InitRest
    \/ InitDone
    \/ HotkeyStart
    \/ OnStartRecording
    \/ StartDone
    \/ HotkeyStop
    \/ OnStopRecording
    \/ SpawnTask
    \/ StopDone
    \/ Transcribe
    \/ CopyToClipboard
    \/ Notify
    \/ TaskFailed
    \/ TogglePause
    \/ ResumeDone
    \/ PauseDone
    \/ ProcessQtOperations

SpecConc == InitConc /\ [][NextConc]_vars

\* ------------------------------------------------ the queries of the API
\* is_busy without COPYING in its tuple
IsBusy_NoCopying(state) ==
    state \in {"RECORDING", "PROCESSING", "REFINING"}

\* StateMachine.is_busy: self.current_state in (RECORDING, PROCESSING,
\* REFINING, COPYING)
IsBusy(state) ==
    state \in {"RECORDING", "PROCESSING", "REFINING", "COPYING"}

\* StateMachine.is_ready: self.current_state == AppState.IDLE
IsReady(state) ==
    state = "IDLE"

\* StateMachine.is_state(*states): self.current_state in states
IsState(state, states) ==
    state \in states

\* a Python bool as the caller receives it
PyBool(b) ==
    IF b THEN "True" ELSE "False"

\* a query: it returns ret and assigns nothing
Query(op, arg, ret) ==
    /\ calls' = << >>
    /\ last' = [op |-> op, target |-> arg, kwargs |-> {}, from |-> current_state,
                ret |-> ret]
    /\ UNCHANGED <<smvars, cbvars, clock, successes, frames, app>>

\* StateMachine.get_state()
GetStateCall ==
    Query("get_state", "None", current_state)

\* StateMachine.is_state(s)
IsStateCall(s) ==
    Query("is_state", s, PyBool(IsState(current_state, {s})))

\* StateMachine.is_busy()
IsBusyCall ==
    Query("is_busy", "None", PyBool(IsBusy(current_state)))

\* StateMachine.is_ready()
IsReadyCall ==
    Query("is_ready", "None", PyBool(IsReady(current_state)))

NextQuery ==
    \/ \E s \in AppState, kw \in Payloads : TransitionTo(s, kw)
    \/ Reset
    \/ GetStateCall
    \/ \E s \in AppState : IsStateCall(s)
    \/ IsBusyCall
    \/ IsReadyCall

SpecQuery == Init /\ [][NextQuery]_vars

\* ------------------------------------- the application, handler by handler
\* Each handler of VoiceModeApp runs as one step; _process_audio is cut at
\* its three blocking calls (engine, clipboard, notification), between
\* which the other threads run.

\* transition_to(ERROR, error=str(e))
ErrorPayload_Empty(message) ==
    {}

ErrorPayload(message) ==
    {<<"error", message>>}

\* kwargs.get('error', 'Unknown error')
ErrorMessage(kwargs) ==
    IF \E p \in kwargs : p[1] = "error"
    THEN (CHOOSE p \in kwargs : p[1] = "error")[2]
    ELSE "Unknown error"

\* _on_error: rumps.notification("Voice Mode Error", "An error occurred", msg)
ErrorNotification(kwargs, seen_state, seen_history) ==
    [title |-> "Voice Mode Error", subtitle |-> <<"An error occurred">>,
     message |-> ErrorMessage(kwargs), seen_state |-> seen_state,
     seen_len |-> Len(seen_history)]

\* the notification without the language in its subtitle
SuccessNotification_NoLanguage(text, language, seen_state, seen_history) ==
    [title |-> "Voice Mode", subtitle |-> <<"Text copied">>,
     message |-> text, seen_state |-> seen_state,
     seen_len |-> Len(seen_history)]

\* _process_audio: rumps.notification("Voice Mode",
\* f"Text copied ({detected_language})", preview of the transcription)
SuccessNotification(text, language, seen_state, seen_history) ==
    [title |-> "Voice Mode", subtitle |-> <<"Text copied", language>>,
     message |-> text, seen_state |-> seen_state,
     seen_len |-> Len(seen_history)]

\* _on_stop_recording going to PROCESSING whatever the recorder returned
StopTarget_AlwaysProcessing(audio) ==
    "PROCESSING"

\* _on_stop_recording: if self.current_audio is not None: PROCESSING (and a
\* task), else IDLE
StopTarget(audio) ==
    IF audio # "None" THEN "PROCESSING" ELSE "IDLE"

\* _copy_to_clipboard printing the exception and returning
CopyRaiseEscapes_Swallowed(raised) ==
    FALSE

\* _copy_to_clipboard: except Exception as e: print(...); raise
CopyRaiseEscapes(raised) ==
    raised

\* start_recording called before transition_to(RECORDING)
RecorderStartState_Before(before, after) ==
    before

\* _on_start_recording: start_recording() is called after
\* transition_to(RECORDING) returned True; the state the recorder starts in
RecorderStartState(before, after) ==
    after

\* _on_stop_recording without its first check
StopAllowed_Always(state) ==
    TRUE

\* _on_stop_recording: if not self.state_machine.is_state(RECORDING): return
StopAllowed(state) ==
    IsState(state, {"RECORDING"})

\* a handler calls transition_to(new_state, **kwargs) once; on_error_raises
\* says whether the enter callback raises (rumps.notification in _on_error)
AppCall(op, new_state, kwargs, on_error_raises) ==
    /\ Len(state_history) < MaxAppHist
    /\ IF IsValidTransition(current_state, new_state)
       THEN /\ previous_state' = current_state
            /\ current_state' = new_state
            /\ state_data' = StoredData(state_data, kwargs)
            /\ state_history' = Recorded(state_history, new_state, clock)
            /\ calls' = ExitCalls(current_state, FALSE)
                          \o EnterCalls(new_state, kwargs, on_error_raises)
            /\ successes' = Append(successes, new_state)
       ELSE /\ UNCHANGED smvars
            /\ calls' = << >>
            /\ UNCHANGED successes
    /\ last' = [op |-> op, target |-> new_state, kwargs |-> kwargs,
                from |-> current_state,
                ret |-> PyBool(IsValidTransition(current_state, new_state))]
    /\ UNCHANGED <<cbvars, clock, frames>>

\* a handler step that does not call transition_to
AppNoCall(op) ==
    /\ calls' = << >>
    /\ last' = [op |-> op, target |-> "None", kwargs |-> {},
                from |-> current_state, ret |-> "None"]
    /\ UNCHANGED <<smvars, cbvars, clock, successes, frames>>

\* the notifications after transition_to(new_state, **kwargs): _on_error
\* emits one when ERROR is entered and rumps.notification does not raise
AfterOnError(notes, new_state, kwargs, on_error_raises) ==
    IF new_state = "ERROR" /\ ~on_error_raises
    THEN Append(notes, ErrorNotification(kwargs, current_state', state_history'))
    ELSE notes

\* the except branch of a handler: transition_to(ERROR, error=str(e)); ERROR
\* is always entered, and _on_error notifies or fails to
Fail(op, message, rest) ==
    \E on_error_raises \in BOOLEAN :
        /\ AppCall(op, "ERROR", ErrorPayload(message), on_error_raises)
        /\ app' = [rest EXCEPT
                     !.notifications = AfterOnError(app.notifications, "ERROR",
                                          ErrorPayload(message), on_error_raises),
                     !.cycle = NoCycle]

\* initialize_components, first part: HotkeyManager is created and started,
\* or that raises
InitializeHotkey ==
    /\ app.init = "start"
    /\ \/ /\ AppNoCall("initialize_components:hotkey")
          /\ app' = [app EXCEPT !.hotkey_manager = TRUE, !.listening = TRUE,
                                !.init = "init_rest", !.cycle = NoCycle]
       \/ Fail("initialize_components:hotkey", InitError,
               [app EXCEPT !.init = "done"])

\* initialize_components, second part: AudioRecorder, ModelManager and
\* WhisperEngine are created and the model is loaded, then
\* transition_to(IDLE); or creating the recorder raises; or the engine is
\* created and downloading or loading the model fails
InitializeComponents ==
    /\ app.init = "init_rest"
    /\ \/ /\ AppCall("initialize_components", "IDLE", {}, FALSE)
          /\ app' = [app EXCEPT !.audio_recorder = TRUE, !.whisper_engine = "loaded",
                                !.init = "done", !.cycle = NoCycle]
       \/ Fail("initialize_components", InitError,
               [app EXCEPT !.init = "done"])
       \/ Fail("initialize_components", InitError,
               [app EXCEPT !.audio_recorder = TRUE, !.whisper_engine = "created",
                           !.init = "done"])

\* AudioRecorder.start_recording: False when already recording; else the
\* old chunks are dropped and the stream is opened (stream_ok) or that fails
StartRecording(a, seen_state, seen_history, stream_ok) ==
    IF a.rec_is_recording
    THEN [a EXCEPT !.rec_started_in = seen_state,
                   !.rec_started_at = Len(seen_history),
                   !.rec_start_ret = "False"]
    ELSE [a EXCEPT !.audio_data = "empty",
                   !.rec_is_recording = stream_ok,
                   !.rec_started_in = seen_state,
                   !.rec_started_at = Len(seen_history),
                   !.rec_start_ret = PyBool(stream_ok)]

\* _process_audio called on the listener thread, which is then busy until
\* the task has ended
ListenerBusy_Inline(a) ==
    \E id \in TaskIds : a.running[id].site # "none"

\* whether the listener thread is still inside _on_stop_recording:
\* threading.Thread(target=self._process_audio, daemon=True).start()
\* returns at once, so the handler has returned whatever the tasks do
ListenerBusy(a) ==
    FALSE

\* the listener delivers a start signal (HotkeyManager.is_recording goes
\* from False to True) and _on_start_recording runs
StartSignal ==
    /\ ~ListenerBusy(app)
    /\ app.listening
    /\ ~app.hk_recording
    /\ IF ~IsReady(current_state)
       THEN /\ AppNoCall("_on_start_recording")
            /\ app' = [app EXCEPT !.hk_recording = TRUE]
       ELSE /\ AppCall("_on_start_recording", "RECORDING", {}, FALSE)
            /\ \E stream_ok \in BOOLEAN :
                 LET heard == [app EXCEPT !.hk_recording = TRUE,
                                 !.cycle = [NoCycle EXCEPT
                                              !.stage = "recording",
                                              !.base = Len(state_history),
                                              !.clip = Len(app.clipboard),
                                              !.notes = Len(app.notifications)]]
                 IN app' = IF last'.ret = "True" /\ app.audio_recorder
                           THEN StartRecording(heard,
                                    RecorderStartState(current_state, current_state'),
                                    state_history', stream_ok)
                           ELSE heard

\* AudioRecorder._audio_callback: a chunk arrives while recording
AudioChunk ==
    /\ app.rec_is_recording
    /\ app.audio_data = "empty"
    /\ AppNoCall("_audio_callback")
    /\ app' = [app EXCEPT !.audio_data = "chunks"]

\* AudioRecorder.stop_recording: None when not recording, when no chunk was
\* captured or when closing the stream or joining the chunks raises
StoppedAudio(a, joined) ==
    IF a.rec_is_recording /\ a.audio_data = "chunks" /\ joined
    THEN "buffer" ELSE "None"

\* ids of the task threads that can be started
FreeTasks == {id \in TaskIds : app.running[id].site = "none"}

\* the listener delivers a stop signal (HotkeyManager.is_recording goes from
\* True to False) and _on_stop_recording runs
StopSignal ==
    /\ ~ListenerBusy(app)
    /\ app.listening
    /\ app.hk_recording
    /\ IF ~StopAllowed(current_state)
       THEN /\ AppNoCall("_on_stop_recording")
            /\ app' = [app EXCEPT !.hk_recording = FALSE]
       ELSE \E joined \in BOOLEAN :
              LET audio == IF app.audio_recorder THEN StoppedAudio(app, joined)
                           ELSE app.current_audio
                  heard == [app EXCEPT !.hk_recording = FALSE,
                              !.rec_is_recording = ~app.audio_recorder /\ @,
                              !.current_audio = audio,
                              !.stops = IF app.audio_recorder THEN @ + 1 ELSE @]
              IN  IF audio # "None"
                  THEN /\ FreeTasks # {}
                       /\ AppCall("_on_stop_recording", StopTarget(audio), {}, FALSE)
                       /\ LET id == CHOOSE i \in FreeTasks : \A j \in FreeTasks : i <= j
                          IN app' = [heard EXCEPT
                                       !.tasks = @ + 1,
                                       !.running[id] = [NoTask EXCEPT
                                                          !.site = "run",
                                                          !.launched_by = heard.stops],
                                       !.cycle = IF app.cycle.stage = "recording"
                                                 THEN [@ EXCEPT !.stage = "processing",
                                                                !.task = id]
                                                 ELSE NoCycle]
                  ELSE /\ AppCall("_on_stop_recording", StopTarget(audio), {}, FALSE)
                       /\ app' = [heard EXCEPT
                                    !.tasks = IF StopTarget(audio) = "PROCESSING"
                                              THEN @ + 1 ELSE @,
                                    !.cycle = NoCycle]

\* task id ends
Ended(a, id) ==
    [a EXCEPT !.running[id] = NoTask]

\* the cycle after a step of task id that belongs at stage
Follow(id, stage, next) ==
    IF app.cycle.stage = stage /\ app.cycle.task = id
    THEN [app.cycle EXCEPT !.stage = next]
    ELSE NoCycle

\* a task that asks for the refining step
AfterTranscription_Refines ==
    "REFINING"

\* the state _process_audio asks for when the engine has returned:
\* self.state_machine.transition_to(AppState.COPYING)
AfterTranscription ==
    "COPYING"

\* _process_audio up to transition_to(COPYING): without engine or audio a
\* RuntimeError; else whisper_engine.transcribe, which raises when no model
\* is loaded or when the model fails, or returns text and language
TranscribeStep(id) ==
    /\ app.running[id].site = "run"
    /\ IF app.whisper_engine = "None" \/ app.current_audio = "None"
       THEN Fail("_process_audio:transcribe", NoEngineError, Ended(app, id))
       ELSE LET called == [app EXCEPT !.engine_calls = @ + 1] IN
            IF app.whisper_engine = "created"
            THEN Fail("_process_audio:transcribe", ModelNotLoaded, Ended(called, id))
            ELSE \/ Fail("_process_audio:transcribe", TranscribeError, Ended(called, id))
                 \/ \E result \in EngineResults :
                      /\ AppCall("_process_audio:transcribe", AfterTranscription, {}, FALSE)
                      /\ app' = [called EXCEPT
                                   !.running[id] = [@ EXCEPT
                                        !.site = "copy",
                                        !.transcription = result.text,
                                        !.detected_language = result.language],
                                   !.cycle = [Follow(id, "processing", "copying")
                                                EXCEPT !.text = result.text,
                                                       !.language = result.language]]

\* _process_audio: _copy_to_clipboard(transcription), then
\* transition_to(IDLE); when pbcopy cannot be run nothing is written
CopyToClipboardStep(id) ==
    /\ app.running[id].site = "copy"
    /\ \E raised \in BOOLEAN :
         LET written == [app EXCEPT !.clipboard =
                            IF raised THEN @
                            ELSE Append(@, app.running[id].transcription)]
         IN IF CopyRaiseEscapes(raised)
            THEN Fail("_process_audio:copy", ClipboardError, Ended(written, id))
            ELSE /\ AppCall("_process_audio:copy", "IDLE", {}, FALSE)
                 /\ app' = [written EXCEPT
                              !.running[id].site = "notify",
                              !.cycle = IF raised THEN NoCycle
                                        ELSE Follow(id, "copying", "idle")]

\* _process_audio: rumps.notification(...) after the return to IDLE; it is
\* inside the try, so when it raises the except branch runs
NotifyStep(id) ==
    /\ app.running[id].site = "notify"
    /\ \/ /\ AppNoCall("_process_audio:notify")
          /\ app' = [Ended(app, id) EXCEPT
                       !.notifications = Append(@,
                           SuccessNotification(app.running[id].transcription,
                               app.running[id].detected_language,
                               current_state, state_history)),
                       !.cycle = Follow(id, "idle", "done")]
       \/ Fail("_process_audio:notify", NotificationError, Ended(app, id))

\* toggle_pause, a menu click: in PAUSED transition_to(IDLE) and the
\* listener is started, else transition_to(PAUSED) and it is stopped
MenuTogglePause ==
    IF IsState(current_state, {"PAUSED"})
    THEN /\ AppCall("toggle_pause", "IDLE", {}, FALSE)
         /\ app' = [app EXCEPT !.listening = app.hotkey_manager \/ @,
                               !.cycle = NoCycle]
    ELSE /\ AppCall("toggle_pause", "PAUSED", {}, FALSE)
         /\ app' = [app EXCEPT !.listening = ~app.hotkey_manager /\ @,
                               !.cycle = NoCycle]

NextApp ==
    \/ InitializeHotkey
    \/ InitializeComponents
    \/ StartSignal
    \/ AudioChunk
    \/ StopSignal
    \/ \E id \in TaskIds : TranscribeStep(id)
    \/ \E id \in TaskIds : CopyToClipboardStep(id)
    \/ \E id \in TaskIds : NotifyStep(id)
    \/ MenuTogglePause

SpecApp == InitConc /\ [][NextApp]_vars

\* the transition_to calls a task at site can still make: COPYING at line
\* 331, IDLE at line 337, ERROR in the except branch at line 345
Reserve(site) ==
    CASE site = "run"    -> 3
      [] site = "copy"   -> 2
      [] site = "notify" -> 1
      [] OTHER           -> 0

RECURSIVE Reserved(_)
\* the calls the tasks 1..n can still make
Reserved(n) ==
    IF n = 0 THEN 0 ELSE Reserve(app.running[n].site) + Reserved(n - 1)

\* a handler that makes need calls at most leaves the running tasks room
\* in the recorded history to run to their end
Room(need) ==
    Len(state_history) + Reserved(MaxTasks) + need <= MaxAppHist

\* one step of the transcription task id
TaskStep(id) ==
    \/ TranscribeStep(id)
    \/ CopyToClipboardStep(id)
    \/ NotifyStep(id)

\* the handlers of SpecApp, with every started task able to finish
NextAppFair ==
    \/ Room(1) /\ InitializeHotkey
    \/ Room(1) /\ InitializeComponents
    \/ Room(1) /\ StartSignal
    \/ AudioChunk
    \/ Room(4) /\ StopSignal
    \/ Room(1) /\ MenuTogglePause
    \/ \E id \in TaskIds : TaskStep(id)

\* the engine call and the clipboard write return or raise, and the task
\* thread is scheduled: each task keeps taking its next step
SpecAppFair ==
    /\ InitConc
    /\ [][NextAppFair]_vars
    /\ \A id \in TaskIds : WF_vars(TaskStep(id))

\* ------------------------------------------------------ MainThreadBridge
\* app.qt_bridge holds the three slots and the holder of _lock; since and
\* drained list the requests made after the latest drain and the requests
\* the latest drain covered; threads, atomic and expected belong to the
\* step-by-step runs of SpecBridgeConc.

\* a bridge method that returns nothing, run as a whole under the lock
BridgeRequest(op, arg, after) ==
    /\ Len(app.qt_bridge.since) < MaxRequests
    /\ app' = [app EXCEPT !.qt_bridge =
                 [after EXCEPT !.since = Append(@, [op |-> op, arg |-> arg])]]
    /\ calls' = << >>
    /\ last' = [op |-> op, target |-> arg, kwargs |-> {},
                from |-> current_state, ret |-> "None"]
    /\ UNCHANGED <<smvars, cbvars, clock, successes, frames>>

\* MainThreadBridge.request_show_recording()
RequestShowRecording ==
    BridgeRequest("request_show_recording", "None", AfterShow(app.qt_bridge))

\* MainThreadBridge.request_hide_recording()
RequestHideRecording ==
    BridgeRequest("request_hide_recording", "None", AfterHide(app.qt_bridge))

\* MainThreadBridge.request_update_audio_level(level)
RequestUpdateAudioLevel(level) ==
    BridgeRequest("request_update_audio_level", level,
                  AfterLevel(app.qt_bridge, level))

\* MainThreadBridge.get_and_clear_pending_operations()
GetAndClearPendingOperations ==
    /\ app' = [app EXCEPT !.qt_bridge =
                 [Cleared(app.qt_bridge) EXCEPT !.since = << >>,
                                                !.drained = app.qt_bridge.since]]
    /\ calls' = << >>
    /\ last' = [op |-> "get_and_clear_pending_operations", target |-> "None",
                kwargs |-> {}, from |-> current_state,
                ret |-> Snapshot(app.qt_bridge)]
    /\ UNCHANGED <<smvars, cbvars, clock, successes, frames>>

NextBridge ==
    \/ RequestShowRecording
    \/ RequestHideRecording
    \/ \E level \in Levels : RequestUpdateAudioLevel(level)
    \/ GetAndClearPendingOperations

SpecBridge == InitConc /\ [][NextBridge]_vars

\* ------------------------------- the bridge called from several threads
\* the methods each thread calls: _on_recording_start and
\* _on_recording_stop run on the listener thread, on_audio_chunk on the
\* audio thread, the timer's get_and_clear_pending_operations on the UI
\* thread
BridgeMethods(t) ==
    CASE t = "hotkey" -> {"show", "hide"}
      [] t = "audio"  -> {"level"}
      [] t = "ui"     -> {"drain"}

\* acquiring without exclusion
LockFree_NoLock(b) ==
    TRUE

\* with self._lock: the lock can be taken when no thread holds it
LockFree(b) ==
    b.lock = "None"

\* thread t steps from pc to next inside a method, bridge fields set by after
BridgeStep(t, pc, next, after) ==
    /\ app.qt_bridge.threads[t].pc = pc
    /\ app' = [app EXCEPT !.qt_bridge = [after EXCEPT !.threads[t].pc = next]]
    /\ calls' = << >>
    /\ UNCHANGED <<smvars, cbvars, clock, successes, frames>>

\* thread t calls one of its methods and waits for the lock
BridgeCall(t) ==
    /\ \E m \in BridgeMethods(t), level \in Levels :
         BridgeStep(t, "idle", "acquire",
                    [app.qt_bridge EXCEPT !.threads[t] =
                        [IdleBridgeThread EXCEPT
                           !.method = m,
                           !.arg = IF m = "level" THEN level ELSE "None"]])
    /\ UNCHANGED last

\* with self._lock: entered.  atomic follows the slots as they are when
\* each method runs whole at this moment; expected is what a drain then
\* returns.
BridgeAcquire(t) ==
    /\ LockFree(app.qt_bridge)
    /\ LET b == app.qt_bridge
           m == b.threads[t].method
       IN BridgeStep(t, "acquire", m \o "_1",
             [b EXCEPT !.lock = t,
                       !.atomic = CASE m = "show"  -> AfterShow(@)
                                    [] m = "hide"  -> AfterHide(@)
                                    [] m = "level" -> AfterLevel(@, b.threads[t].arg)
                                    [] m = "drain" -> Cleared(@),
                       !.expected = IF m = "drain" THEN Snapshot(b.atomic) ELSE @])
    /\ UNCHANGED last

\* the lock when thread t leaves the with block
Released(t, lock) ==
    IF lock = t THEN "None" ELSE lock

\* request_show_recording: self._pending_show = True
ShowSetShow(t) ==
    /\ BridgeStep(t, "show_1", "show_2",
                  [app.qt_bridge EXCEPT !.pending_show = TRUE])
    /\ UNCHANGED last

\* request_show_recording: self._pending_hide = False, and the lock is released
ShowClearHide(t) ==
    /\ BridgeStep(t, "show_2", "idle",
                  [app.qt_bridge EXCEPT !.pending_hide = FALSE,
                                        !.lock = Released(t, @)])
    /\ last' = [op |-> "request_show_recording", target |-> "None",
                kwargs |-> {}, from |-> current_state, ret |-> "None"]

\* request_hide_recording: self._pending_hide = True
HideSetHide(t) ==
    /\ BridgeStep(t, "hide_1", "hide_2",
                  [app.qt_bridge EXCEPT !.pending_hide = TRUE])
    /\ UNCHANGED last

\* request_hide_recording that leaves _pending_show as it is
HideClearShow_KeepsShow(t) ==
    /\ BridgeStep(t, "hide_2", "idle",
                  [app.qt_bridge EXCEPT !.lock = Released(t, @)])
    /\ last' = [op |-> "request_hide_recording", target |-> "None",
                kwargs |-> {}, from |-> current_state, ret |-> "None"]

\* request_hide_recording: self._pending_show = False, and the lock is released
HideClearShow(t) ==
    /\ BridgeStep(t, "hide_2", "idle",
                  [app.qt_bridge EXCEPT !.pending_show = FALSE,
                                        !.lock = Released(t, @)])
    /\ last' = [op |-> "request_hide_recording", target |-> "None",
                kwargs |-> {}, from |-> current_state, ret |-> "None"]

\* request_update_audio_level: self._pending_audio_level = level, and the
\* lock is released
LevelSet(t) ==
    /\ BridgeStep(t, "level_1", "idle",
                  [app.qt_bridge EXCEPT
                     !.pending_audio_level = app.qt_bridge.threads[t].arg,
                     !.lock = Released(t, @)])
    /\ last' = [op |-> "request_update_audio_level",
                target |-> app.qt_bridge.threads[t].arg,
                kwargs |-> {}, from |-> current_state, ret |-> "None"]

\* get_and_clear_pending_operations: show = self._pending_show
DrainReadShow(t) ==
    /\ BridgeStep(t, "drain_1", "drain_2",
                  [app.qt_bridge EXCEPT !.threads[t].show = app.qt_bridge.pending_show])
    /\ UNCHANGED last

\* hide = self._pending_hide
DrainReadHide(t) ==
    /\ BridgeStep(t, "drain_2", "drain_3",
                  [app.qt_bridge EXCEPT !.threads[t].hide = app.qt_bridge.pending_hide])
    /\ UNCHANGED last

\* level = self._pending_audio_level
DrainReadLevel(t) ==
    /\ BridgeStep(t, "drain_3", "drain_4",
                  [app.qt_bridge EXCEPT
                     !.threads[t].level = app.qt_bridge.pending_audio_level])
    /\ UNCHANGED last

\* self._pending_show = False
DrainClearShow(t) ==
    /\ BridgeStep(t, "drain_4", "drain_5",
                  [app.qt_bridge EXCEPT !.pending_show = FALSE])
    /\ UNCHANGED last

\* self._pending_hide = False
DrainClearHide(t) ==
    /\ BridgeStep(t, "drain_5", "drain_6",
                  [app.qt_bridge EXCEPT !.pending_hide = FALSE])
    /\ UNCHANGED last

\* self._pending_audio_level = None
DrainClearLevel(t) ==
    /\ BridgeStep(t, "drain_6", "drain_7",
                  [app.qt_bridge EXCEPT !.pending_audio_level = "None"])
    /\ UNCHANGED last

\* return show, hide, level, and the lock is released
DrainReturn(t) ==
    /\ BridgeStep(t, "drain_7", "idle",
                  [app.qt_bridge EXCEPT !.lock = Released(t, @)])
    /\ last' = [op |-> "get_and_clear_pending_operations", target |-> "None",
                kwargs |-> {}, from |-> current_state,
                ret |-> <<app.qt_bridge.threads[t].show,
                          app.qt_bridge.threads[t].hide,
                          app.qt_bridge.threads[t].level>>]

NextBridgeConc ==
    \/ \E t \in BridgeThreads : BridgeCall(t)
    \/ \E t \in BridgeThreads : BridgeAcquire(t)
    \/ \E t \in BridgeThreads : ShowSetShow(t)
    \/ \E t \in BridgeThreads : ShowClearHide(t)
    \/ \E t \in BridgeThreads : HideSetHide(t)
    \/ \E t \in BridgeThreads : HideClearShow(t)
    \/ \E t \in BridgeThreads : LevelSet(t)
    \/ \E t \in BridgeThreads : DrainReadShow(t)
    \/ \E t \in BridgeThreads : DrainReadHide(t)
    \/ \E t \in BridgeThreads : DrainReadLevel(t)
    \/ \E t \in BridgeThreads : DrainClearShow(t)
    \/ \E t \in BridgeThreads : DrainClearHide(t)
    \/ \E t \in BridgeThreads : DrainClearLevel(t)
    \/ \E t \in BridgeThreads : DrainReturn(t)

SpecBridgeConc == InitConc /\ [][NextBridgeConc]_vars

\* --------------------------------------------------------- HotkeyManager
\* a start emitted whatever is_recording says
MayStart_Always(is_recording) ==
    TRUE

\* if not self.is_recording: (then is_recording = True and on_start)
MayStart(is_recording) ==
    ~is_recording

\* if self.is_recording: (then is_recording = False and on_stop)
MayStop(is_recording) ==
    is_recording

\* the manager after a possible start: fields, is_recording and the signal
Started(h, is_recording, wanted) ==
    IF wanted /\ MayStart(is_recording)
    THEN [hotkey |-> [h EXCEPT !.emitted = "start"], is_recording |-> TRUE,
          signal |-> "start"]
    ELSE [hotkey |-> h, is_recording |-> is_recording, signal |-> "None"]

\* the manager after a possible stop
Stopped(h, is_recording, wanted) ==
    IF wanted /\ MayStop(is_recording)
    THEN [hotkey |-> [h EXCEPT !.emitted = "stop"], is_recording |-> FALSE,
          signal |-> "stop"]
    ELSE [hotkey |-> h, is_recording |-> is_recording, signal |-> "None"]

\* HotkeyManager._handle_caps_lock; reading is what _get_caps_lock_state
\* returns (False too when Quartz raises)
HandleCapsLock(h, is_recording, reading) ==
    IF reading # h.caps_lock_state
    THEN IF reading
         THEN Started([h EXCEPT !.caps_lock_state = reading], is_recording, TRUE)
         ELSE Stopped([h EXCEPT !.caps_lock_state = reading], is_recording, TRUE)
    ELSE [hotkey |-> h, is_recording |-> is_recording, signal |-> "None"]

\* HotkeyManager._on_press(key)
OnPressResult(h0, is_recording, key, reading) ==
    LET h == [h0 EXCEPT !.pressed_keys = @ \cup {key}] IN
    CASE h.hotkey_type = "caps_lock" ->
            HandleCapsLock(h, is_recording, reading)
      [] h.hotkey_type = "option+space" ->
            Started(h, is_recording, {"alt", "space"} \subseteq h.pressed_keys)
      [] h.hotkey_type = "control+command+space" ->
            Started(h, is_recording, {"ctrl", "cmd", "space"} \subseteq h.pressed_keys)
      [] h.hotkey_type = "fn" ->
            Started(h, is_recording, key = "f13")
      [] OTHER ->
            [hotkey |-> h, is_recording |-> is_recording, signal |-> "None"]

\* HotkeyManager._on_release(key)
OnReleaseResult(h0, is_recording, key, reading) ==
    LET h == [h0 EXCEPT !.pressed_keys = @ \ {key}] IN
    CASE h.hotkey_type = "caps_lock" ->
            HandleCapsLock(h, is_recording, reading)
      [] h.hotkey_type = "option+space" ->
            Stopped(h, is_recording, key \in {"space", "alt"})
      [] h.hotkey_type = "control+command+space" ->
            Stopped(h, is_recording, key = "space")
      [] h.hotkey_type = "fn" ->
            Stopped(h, is_recording, key = "f13")
      [] OTHER ->
            [hotkey |-> h, is_recording |-> is_recording, signal |-> "None"]

\* the listener thread handles one key event; last.ret is the signal given
\* to the callbacks, last.kwargs the Caps Lock reading
KeyEvent(op, key, reading, result) ==
    /\ app.listening
    /\ app' = [app EXCEPT !.hotkey = result.hotkey,
                          !.hk_recording = result.is_recording]
    /\ calls' = << >>
    /\ last' = [op |-> op, target |-> key, kwargs |-> {<<"reading", reading>>},
                from |-> current_state, ret |-> result.signal]
    /\ UNCHANGED <<smvars, cbvars, clock, successes, frames>>

\* a key goes down
OnPress(key, reading) ==
    KeyEvent("_on_press", key, reading,
             OnPressResult(app.hotkey, app.hk_recording, key, reading))

\* a key goes up
OnRelease(key, reading) ==
    KeyEvent("_on_release", key, reading,
             OnReleaseResult(app.hotkey, app.hk_recording, key, reading))

\* HotkeyManager.start(): a new listener, the other fields as they are
HotkeyManagerStart ==
    /\ ~app.listening
    /\ app' = [app EXCEPT !.listening = TRUE]
    /\ calls' = << >>
    /\ last' = [op |-> "start", target |-> "None", kwargs |-> {},
                from |-> current_state, ret |-> "None"]
    /\ UNCHANGED <<smvars, cbvars, clock, successes, frames>>

\* HotkeyManager.stop()
HotkeyManagerStop ==
    /\ app.listening
    /\ app' = [app EXCEPT !.listening = FALSE]
    /\ calls' = << >>
    /\ last' = [op |-> "stop", target |-> "None", kwargs |-> {},
                from |-> current_state, ret |-> "None"]
    /\ UNCHANGED <<smvars, cbvars, clock, successes, frames>>

\* HotkeyManager(hotkey_type) for each type, in a constructed application
InitHotkeyTypes ==
    /\ current_state = "INITIALIZING"
    /\ previous_state = "None"
    /\ state_history = << >>
    /\ state_data = {}
    /\ SetupStateCallbacks
    /\ clock = 0
    /\ calls = << >>
    /\ last = NoOp
    /\ successes = << >>
    /\ frames = InitFrames
    /\ \E ty \in HotkeyTypes :
          app = [InitApp EXCEPT !.hotkey_manager = TRUE,
                                !.hotkey.hotkey_type = ty]

NextHotkey ==
    \/ \E key \in Keys, reading \in BOOLEAN : OnPress(key, reading)
    \/ \E key \in Keys, reading \in BOOLEAN : OnRelease(key, reading)
    \/ HotkeyManagerStart
    \/ HotkeyManagerStop

SpecHotkey == InitHotkeyTypes /\ [][NextHotkey]_vars

\* --------------------------------------------------------- AudioRecorder
RECURSIVE Concatenate(_)
\* np.concatenate(self.audio_data, axis=0): the samples of the chunks, one
\* chunk after the other
Concatenate(chunks) ==
    IF chunks = << >> THEN << >>
    ELSE Head(chunks) \o Concatenate(Tail(chunks))

\* a recorder step seen from outside
RecorderCall(op, arg, ret, after) ==
    /\ app' = [app EXCEPT !.recorder = after]
    /\ calls' = << >>
    /\ last' = [op |-> op, target |-> arg, kwargs |-> {},
                from |-> current_state, ret |-> ret]
    /\ UNCHANGED <<smvars, cbvars, clock, successes, frames>>

\* a callback that stores the chunk whether recording or not
Stored_Always(r, chunk) ==
    [r EXCEPT !.audio_data = Append(@, chunk)]

\* AudioRecorder._audio_callback: if self.is_recording:
\* self.audio_data.append(indata.copy())
Stored(r, chunk) ==
    IF r.is_recording THEN [r EXCEPT !.audio_data = Append(@, chunk)] ELSE r

\* the audio thread delivers one chunk
AudioCallback(chunk) ==
    LET r == app.recorder IN
    /\ Len(r.audio_data) < MaxChunks
    /\ Len(r.delivered) < MaxChunks
    /\ RecorderCall("_audio_callback", "None",
                    IF r.is_recording THEN "stored" ELSE "dropped",
                    [Stored(r, chunk) EXCEPT
                       !.delivered = IF r.window THEN Append(@, chunk) ELSE @])

\* a start that clears the chunks before it looks at is_recording
AfterStart_ClearsFirst(r, stream_ok) ==
    IF r.is_recording THEN [r EXCEPT !.audio_data = << >>]
    ELSE [r EXCEPT !.audio_data = << >>, !.is_recording = stream_ok]

\* AudioRecorder.start_recording: return False when already recording; else
\* audio_data = [], is_recording = True, and the stream is created and
\* started, or that raises and is_recording is set back to False
AfterStart(r, stream_ok) ==
    IF r.is_recording THEN r
    ELSE [r EXCEPT !.audio_data = << >>, !.is_recording = stream_ok]

\* start_recording()
RecorderStart ==
    \E stream_ok \in BOOLEAN :
        LET r == app.recorder
            started == ~r.is_recording /\ stream_ok
        IN RecorderCall("start_recording", "None", PyBool(started),
                        [AfterStart(r, stream_ok) EXCEPT
                           !.window = IF started THEN TRUE ELSE @,
                           !.delivered = IF started THEN << >> ELSE @])

\* what stop_recording returns: None (here the empty array) when not
\* recording, when closing the stream raises or when no chunk was stored;
\* else the concatenated chunks
StopResult(r, closed) ==
    IF r.is_recording /\ closed THEN Concatenate(r.audio_data) ELSE << >>

\* stop_recording()
RecorderStop ==
    \E closed \in BOOLEAN :
        LET r == app.recorder
            audio == StopResult(r, closed)
        IN RecorderCall("stop_recording", PyBool(closed),
                        IF audio = << >> THEN "None" ELSE "buffer",
                        [r EXCEPT !.is_recording = FALSE,
                                  !.returned = audio,
                                  !.window = FALSE])

NextRecorder ==
    \/ \E chunk \in Chunks : AudioCallback(chunk)
    \/ RecorderStart
    \/ RecorderStop

SpecRecorder == InitConc /\ [][NextRecorder]_vars

\* ------------------------------------------------------------------ claims

\* the transition table as the specification lists it
AllowedPairs ==
    {<<"INITIALIZING", "IDLE">>, <<"IDLE", "RECORDING">>,
     <<"RECORDING", "PROCESSING">>, <<"RECORDING", "IDLE">>,
     <<"PROCESSING", "REFINING">>, <<"PROCESSING", "COPYING">>,
     <<"REFINING", "COPYING">>, <<"COPYING", "IDLE">>,
     <<"ERROR", "IDLE">>, <<"PAUSED", "IDLE">>}
    \cup {<<s, "ERROR">> : s \in AppState}
    \cup {<<s, "PAUSED">> : s \in AppState}

IsTransition == last.op = "transition_to"
Succeeded == IsTransition /\ last.ret = "True"
Failed == IsTransition /\ last.ret = "False"
ExitIdx == {i \in DOMAIN calls : calls[i].kind = "exit"}
EnterIdx == {i \in DOMAIN calls : calls[i].kind = "enter"}

C2_RejectedNoEffect ==
    [][ (last'.op = "transition_to" /\ last'.ret = "False") =>
          /\ UNCHANGED <<current_state, previous_state, state_data, state_history>>
          /\ UNCHANGED <<on_state_enter, on_state_exit>>
          /\ calls' = << >>
          /\ ~IsValidTransition(current_state', last'.target) ]_vars

\* C2 witness: a call was rejected in a state that has an exit callback, for
\* a target that has an enter callback, with a payload and a history present.
C2_Witness ==
    /\ Failed
    /\ current_state \in on_state_exit
    /\ last.target \in on_state_enter
    /\ state_data # {}
    /\ last.kwargs # state_data
    /\ Len(state_history) >= 2

\* C3: transition_to(ERROR) and transition_to(PAUSED) are valid in every
\* reachable state, and every such call returned True and entered the target.
C3_UniversalEscape ==
    /\ \A t \in {"ERROR", "PAUSED"} : IsValidTransition(current_state, t)
    /\ (IsTransition /\ last.target \in {"ERROR", "PAUSED"}) =>
           (last.ret = "True" /\ current_state = last.target)

\* C3 witness: PAUSED was entered from ERROR, after earlier transitions.
C3_Witness ==
    /\ Succeeded
    /\ last.from = "ERROR"
    /\ last.target = "PAUSED"
    /\ Len(state_history) >= 3

\* C4: a successful transition_to(target, payload) from s leaves
\* previous_state = s, current_state = target, state_data = exactly the
\* payload of the call, and the history longer by one entry for target.
C4_SuccessfulUpdate ==
    [][ (last'.op = "transition_to" /\ last'.ret = "True") =>
          /\ last'.from = current_state
          /\ previous_state' = current_state
          /\ current_state' = last'.target
          /\ state_data' = last'.kwargs
          /\ Len(state_history') = Len(state_history) + 1
          /\ SubSeq(state_history', 1, Len(state_history)) = state_history
          /\ state_history'[Len(state_history')].state = last'.target ]_vars

\* C4 witness: a transition without payload succeeded and the stored payload
\* is empty.
C4_Witness ==
    /\ Succeeded
    /\ last.kwargs = {}
    /\ state_data = {}
    /\ last.from = "ERROR"
    /\ last.target = "IDLE"

\* C5: on a successful transition s -> t the exit callback of s (if
\* registered) is invoked once, with no arguments, while current_state = s
\* and before the history entry; the enter callback of t (if registered) is
\* invoked once, with the payload, when current_state = t and the entry is
\* appended; nothing else is invoked.
C5_CallbackOrder ==
    Succeeded =>
        /\ Cardinality(ExitIdx) = (IF last.from \in on_state_exit THEN 1 ELSE 0)
        /\ Cardinality(EnterIdx) = (IF last.target \in on_state_enter THEN 1 ELSE 0)
        /\ \A i \in ExitIdx :
              /\ calls[i].state = last.from
              /\ calls[i].args = {}
              /\ calls[i].seen_state = last.from
              /\ calls[i].seen_len = Len(state_history) - 1
        /\ \A i \in EnterIdx :
              /\ calls[i].state = last.target
              /\ calls[i].args = last.kwargs
              /\ calls[i].seen_state = last.target
              /\ calls[i].seen_len = Len(state_history)
        /\ \A i \in ExitIdx, j \in EnterIdx : i < j

\* C5 witness: RECORDING -> IDLE with a payload ran the exit callback of
\* RECORDING and then the enter callback of IDLE.
C5_Witness ==
    /\ Succeeded
    /\ last.from = "RECORDING"
    /\ last.target = "IDLE"
    /\ last.kwargs # {}
    /\ Len(calls) = 2

\* C6: when the enter callback of the target raises, transition_to returns
\* True (the exception stays inside), and the machine is exactly where the
\* transition puts it when the callback returns normally.
C6_EnterIsolation ==
    [][ (last'.op = "transition_to" /\ \E i \in DOMAIN calls' :
             calls'[i].kind = "enter" /\ calls'[i].raised) =>
          /\ last'.ret = "True"
          /\ current_state' = last'.target
          /\ previous_state' = current_state
          /\ state_data' = last'.kwargs
          /\ state_history' = Append(state_history,
                                     [state |-> last'.target, time |-> clock])
          /\ UNCHANGED <<on_state_enter, on_state_exit>> ]_vars

\* C6 witness: an enter callback raised during a transition that returned True.
C6_Witness ==
    /\ Succeeded
    /\ \E i \in EnterIdx : calls[i].raised
    /\ current_state = last.target

\* C7: when the exit callback of the current state raises during a valid
\* transition, the transition completes: state, previous_state, payload and
\* history are updated, the enter callback of the new state is invoked, and
\* True is returned.
C7_ExitIsolation ==
    [][ (last'.op = "transition_to" /\ \E i \in DOMAIN calls' :
             calls'[i].kind = "exit" /\ calls'[i].raised) =>
          /\ last'.ret = "True"
          /\ current_state' = last'.target
          /\ previous_state' = current_state
          /\ state_data' = last'.kwargs
          /\ state_history' = Append(state_history,
                                     [state |-> last'.target, time |-> clock])
          /\ (last'.target \in on_state_enter =>
                \E j \in DOMAIN calls' :
                    calls'[j].kind = "enter" /\ calls'[j].state = last'.target) ]_vars

\* C7 witness: the exit callback of RECORDING raised, the machine is in IDLE
\* and the enter callback of IDLE ran.
C7_Witness ==
    /\ Succeeded
    /\ last.from = "RECORDING"
    /\ current_state = "IDLE"
    /\ \E i \in ExitIdx : calls[i].raised
    /\ \E j \in EnterIdx : calls[j].state = "IDLE"

\* C8 (first part): the history has one entry per transition_to call that
\* returned True, in call order; failed calls and reset add none.
C8_CountAndOrder ==
    /\ Len(state_history) = Len(successes)
    /\ \A i \in DOMAIN state_history : state_history[i].state = successes[i]

\* C8: after N successful calls the history has exactly N entries, entry i
\* holds the target of the i-th successful call, and the timestamps are
\* non-decreasing along the history.
C8_HistoryMonotonic ==
    /\ C8_CountAndOrder
    /\ \A i, j \in DOMAIN state_history :
          i < j => state_history[i].time <= state_history[j].time

\* the state before the i-th history entry
Before(i) ==
    IF i = 1 THEN "INITIALIZING" ELSE state_history[i - 1].state

\* C9: transition_to calls of the application's threads take effect one at
\* a time: under every interleaving every adjacent pair of history entries
\* is an allowed edge (each call was validated against the state it
\* replaced), and when no call is in progress previous_state ->
\* current_state is an allowed edge.
C9_Linearizable ==
    /\ \A i \in DOMAIN state_history :
          IsValidTransition(Before(i), state_history[i].state)
    /\ (InFlight = {} /\ previous_state # "None") =>
          IsValidTransition(previous_state, current_state)

\* C10: reset() sets current_state to IDLE, empties the payload, sets
\* previous_state to None, invokes no callback and leaves the history (and
\* the callback tables) as they were.
C10_Reset ==
    [][ last'.op = "reset" =>
          /\ current_state' = "IDLE"
          /\ previous_state' = "None"
          /\ state_data' = {}
          /\ calls' = << >>
          /\ UNCHANGED <<state_history, on_state_enter, on_state_exit>> ]_vars

\* C10 witness: reset was called in RECORDING, with the exit callback of
\* RECORDING and the enter callback of IDLE registered and a history present.
C10_Witness ==
    /\ last.op = "reset"
    /\ last.from = "RECORDING"
    /\ "RECORDING" \in on_state_exit
    /\ "IDLE" \in on_state_enter
    /\ Len(state_history) >= 2
    /\ current_state = "IDLE"

\* the four queries
QueryOps == {"get_state", "is_state", "is_busy", "is_ready"}

\* what is_busy and is_ready answer in state s, against the sets the
\* specification names
QueryFacts(s) ==
    /\ IsBusy(s) <=> s \in {"RECORDING", "PROCESSING", "REFINING", "COPYING"}
    /\ IsReady(s) <=> s = "IDLE"
    /\ ~(IsBusy(s) /\ IsReady(s))
    /\ s \in {"INITIALIZING", "ERROR", "PAUSED"} => (~IsBusy(s) /\ ~IsReady(s))

\* C11: in every reachable state is_busy() is true exactly in RECORDING,
\* PROCESSING, REFINING and COPYING, is_ready() is true exactly in IDLE,
\* the two are never true together and both are false in INITIALIZING,
\* ERROR and PAUSED; get_state, is_state, is_busy and is_ready return the
\* answer for the current state and change nothing.
C11_Queries ==
    [][ /\ QueryFacts(current_state)
        /\ QueryFacts(current_state')
        /\ last'.op \in QueryOps =>
              /\ UNCHANGED <<current_state, previous_state, state_data, state_history>>
              /\ UNCHANGED <<on_state_enter, on_state_exit>>
              /\ calls' = << >>
        /\ last'.op = "get_state" => last'.ret = current_state
        /\ last'.op = "is_state" =>
              (last'.ret = "True" <=> current_state = last'.target)
        /\ last'.op = "is_busy" =>
              (last'.ret = "True" <=>
                 current_state \in {"RECORDING", "PROCESSING", "REFINING", "COPYING"})
        /\ last'.op = "is_ready" =>
              (last'.ret = "True" <=> current_state = "IDLE") ]_vars

\* C11 witness: is_busy() answered True in COPYING, with a payload stored
\* and a history present.
C11_Witness ==
    /\ last.op = "is_busy"
    /\ last.ret = "True"
    /\ current_state = "COPYING"
    /\ Len(state_history) >= 3

\* notifications emitted by the latest step
NewNotifications ==
    {app'.notifications[i] : i \in (Len(app.notifications) + 1)..Len(app'.notifications)}

\* what the recorder holds
RecorderFields(a) ==
    <<a.rec_is_recording, a.audio_data, a.rec_started_in, a.rec_started_at>>

\* the elements of a sequence
Range(seq) == {seq[i] : i \in DOMAIN seq}

\* C12: a cycle that starts in IDLE and runs start signal, stop signal with
\* a buffer, engine result (text, language), clipboard write and
\* notification with no other actor's step in between appends exactly
\* RECORDING, PROCESSING, COPYING, IDLE to the history, writes exactly the
\* engine's text to the clipboard, once, and emits exactly one notification,
\* after the return to IDLE, whose subtitle carries the language.
C12_SuccessPath ==
    app.cycle.stage = "done" =>
        LET c == app.cycle
            b == app.cycle.base
        IN  /\ Len(state_history) = b + 4
            /\ [i \in 1..4 |-> state_history[b + i].state]
                  = <<"RECORDING", "PROCESSING", "COPYING", "IDLE">>
            /\ current_state = "IDLE"
            /\ Len(app.clipboard) = c.clip + 1
            /\ app.clipboard[c.clip + 1] = c.text
            /\ Len(app.notifications) = c.notes + 1
            /\ app.notifications[c.notes + 1].title = "Voice Mode"
            /\ c.language \in Range(app.notifications[c.notes + 1].subtitle)
            /\ app.notifications[c.notes + 1].seen_state = "IDLE"
            /\ app.notifications[c.notes + 1].seen_len = b + 4

\* C12 witness: a whole cycle ran undisturbed with the engine returning
\* "hello world" in "en".
C12_Witness ==
    /\ app.cycle.stage = "done"
    /\ app.cycle.text = "hello world"
    /\ app.cycle.language = "en"
    /\ last.op = "_process_audio:notify"

\* C13: a stop signal in RECORDING for which the recorder returns no buffer
\* moves the machine RECORDING -> IDLE in one transition: PROCESSING is not
\* entered, no task is launched, the engine is not called, and clipboard,
\* notifications and ERROR are not touched.
C13_EmptyRecording ==
    [][ (/\ last'.op = "_on_stop_recording"
         /\ current_state = "RECORDING"
         /\ app'.current_audio = "None") =>
          /\ current_state' = "IDLE"
          /\ previous_state' = "RECORDING"
          /\ state_history' = Append(state_history, [state |-> "IDLE", time |-> clock])
          /\ app'.tasks = app.tasks
          /\ app'.running = app.running
          /\ app'.engine_calls = app.engine_calls
          /\ app'.clipboard = app.clipboard
          /\ app'.notifications = app.notifications ]_vars

\* C13 witness: the recorder was created, the stop signal came in RECORDING
\* before any chunk was captured, and the machine is back in IDLE.
C13_Witness ==
    /\ last.op = "_on_stop_recording"
    /\ last.from = "RECORDING"
    /\ current_state = "IDLE"
    /\ app.audio_recorder
    /\ app.audio_data = "empty"
    /\ app.current_audio = "None"
    /\ app.rec_started_at = Len(state_history) - 1

\* C14: when the engine raises with message m the machine enters ERROR with
\* payload {error: m}, nothing is written to the clipboard, no "text
\* copied" notification is emitted and the task ends without calling the
\* engine again; from ERROR the transition to IDLE is valid, and a start
\* signal in IDLE enters RECORDING.
C14_EngineFailure ==
    [][ /\ (/\ last'.op = "_process_audio:transcribe"
            /\ last'.target = "ERROR"
            /\ app'.engine_calls # app.engine_calls) =>
              /\ current_state' = "ERROR"
              /\ state_data' \in {{<<"error", ModelNotLoaded>>},
                                  {<<"error", TranscribeError>>}}
              /\ (app.whisper_engine = "created") =>
                     state_data' = {<<"error", ModelNotLoaded>>}
              /\ app'.clipboard = app.clipboard
              /\ \A n \in NewNotifications : n.title # "Voice Mode"
              /\ app'.engine_calls = app.engine_calls + 1
              /\ app'.tasks = app.tasks
              /\ \E id \in TaskIds : /\ app.running[id].site = "run"
                                     /\ app'.running[id].site = "none"
              /\ IsValidTransition(current_state', "IDLE")
        /\ (last'.op = "_on_start_recording" /\ current_state = "IDLE") =>
              current_state' = "RECORDING" ]_vars

\* C14 witness: the only task called the engine, which raised in
\* PROCESSING; the machine then returned to IDLE and a start signal entered
\* RECORDING again.
C14_Witness ==
    /\ last.op = "_on_start_recording"
    /\ current_state = "RECORDING"
    /\ app.tasks = 1
    /\ app.engine_calls = 1
    /\ app.clipboard = << >>
    /\ \E i \in DOMAIN state_history :
          /\ i > 1
          /\ state_history[i].state = "ERROR"
          /\ state_history[i - 1].state = "PROCESSING"
          /\ \E j \in DOMAIN state_history : j > i /\ state_history[j].state = "IDLE"

\* C15: when the clipboard write raises in COPYING (nothing is written) the
\* machine moves COPYING -> ERROR with the failure message as payload, the
\* task ends there (no return to IDLE) and no "text copied" notification is
\* emitted.
C15_ClipboardFailure ==
    [][ (/\ last'.op = "_process_audio:copy"
         /\ current_state = "COPYING"
         /\ app'.clipboard = app.clipboard) =>
          /\ current_state' = "ERROR"
          /\ previous_state' = "COPYING"
          /\ state_data' = {<<"error", ClipboardError>>}
          /\ state_history' = Append(state_history, [state |-> "ERROR", time |-> clock])
          /\ \A n \in NewNotifications : n.title # "Voice Mode"
          /\ \E id \in TaskIds : /\ app.running[id].site = "copy"
                                 /\ app'.running[id].site = "none" ]_vars

\* C15 witness: the clipboard write raised in COPYING and the machine is in
\* ERROR with the clipboard's message.
C15_Witness ==
    /\ last.op = "_process_audio:copy"
    /\ last.from = "COPYING"
    /\ current_state = "ERROR"
    /\ state_data = {<<"error", ClipboardError>>}
    /\ app.clipboard = << >>

\* C16: the notification step of a task whose text was written to the
\* clipboard and that returned the machine to IDLE leaves the machine in
\* IDLE and emits no error notification, whether the success notification
\* could be emitted or not.
C16_NotificationNonFatal ==
    [][ (last'.op = "_process_audio:notify" /\ current_state = "IDLE") =>
          /\ current_state' = "IDLE"
          /\ \A n \in NewNotifications : n.title # "Voice Mode Error" ]_vars

\* C19: a start signal in a state other than IDLE changes neither the
\* machine (state, previous state, payload, history) nor the recorder and
\* attempts no transition; a start signal in IDLE moves the machine to
\* RECORDING and the recorder is started after that, in RECORDING.
C19_StartOnlyWhenReady ==
    [][ last'.op = "_on_start_recording" =>
          /\ current_state # "IDLE" =>
                /\ UNCHANGED <<current_state, previous_state, state_data, state_history>>
                /\ last'.target = "None"
                /\ RecorderFields(app') = RecorderFields(app)
          /\ current_state = "IDLE" =>
                /\ current_state' = "RECORDING"
                /\ previous_state' = "IDLE"
                /\ app.audio_recorder =>
                      /\ app'.rec_started_in = "RECORDING"
                      /\ app'.rec_started_at = Len(state_history')
                /\ ~app.audio_recorder =>
                      RecorderFields(app') = RecorderFields(app) ]_vars

\* C19 witness: a start signal in IDLE entered RECORDING and the recorder
\* is recording, started in RECORDING.
C19_Witness ==
    /\ last.op = "_on_start_recording"
    /\ last.from = "IDLE"
    /\ current_state = "RECORDING"
    /\ app.rec_is_recording
    /\ app.rec_started_in = "RECORDING"
    /\ app.rec_started_at = Len(state_history)

\* C20: a stop signal in a state other than RECORDING attempts no
\* transition, leaves the machine, the recorder and the held buffer as they
\* were and launches no task.
C20_StopOutsideRecording ==
    [][ (last'.op = "_on_stop_recording" /\ current_state # "RECORDING") =>
          /\ UNCHANGED <<current_state, previous_state, state_data, state_history>>
          /\ last'.target = "None"
          /\ RecorderFields(app') = RecorderFields(app)
          /\ app'.current_audio = app.current_audio
          /\ app'.tasks = app.tasks
          /\ app'.running = app.running ]_vars

\* C20 witness: the stop signal came in IDLE while the recorder was still
\* recording (the machine was paused during the recording and resumed).
C20_Witness ==
    /\ last.op = "_on_stop_recording"
    /\ last.target = "None"
    /\ current_state = "IDLE"
    /\ app.rec_is_recording

\* C17: while a transcription task is running (from its start until it has
\* returned), every step that changes current_state is a step of that task,
\* under every interleaving with the hotkey thread, the UI thread and
\* initialisation.
C17_TaskRunsAlone ==
    [][ (frames["task"].site # "none" /\ current_state' # current_state) =>
          frames'["task"] # frames["task"] ]_vars

\* C18: every step that takes current_state from ERROR or PAUSED to IDLE is
\* a step of the resume branch of toggle_pause on the UI thread; no step of
\* a transcription task, of the hotkey thread or of initialisation does it.
C18_ExplicitRecovery ==
    [][ (current_state \in {"ERROR", "PAUSED"} /\ current_state' = "IDLE") =>
          /\ frames["ui"].site = "resume_398"
          /\ frames'["ui"] # frames["ui"] ]_vars

\* C21: a stop signal in RECORDING ends the cycle in IDLE, with no
\* PROCESSING or ERROR entry and no task, whenever the recorder did not
\* start for this recording (start_recording returned False) or returned no
\* buffer at the stop.
C21_RecordingFailure ==
    [][ (/\ last'.op = "_on_stop_recording"
         /\ current_state = "RECORDING"
         /\ app.audio_recorder
         /\ app.rec_started_at = Len(state_history)
         /\ (app.rec_start_ret = "False" \/ app'.current_audio = "None")) =>
          /\ current_state' = "IDLE"
          /\ state_history' = Append(state_history, [state |-> "IDLE", time |-> clock])
          /\ app'.tasks = app.tasks
          /\ app'.running = app.running ]_vars

\* positions in seq of the requests whose operation is in ops
RequestIdx(seq, ops) ==
    {i \in DOMAIN seq : seq[i].op \in ops}

\* the latest request in seq whose operation is in ops
LatestRequest(seq, ops) ==
    seq[CHOOSE i \in RequestIdx(seq, ops) : \A j \in RequestIdx(seq, ops) : j <= i]

\* the level of the latest request_update_audio_level in seq, None without one
LastLevel(seq) ==
    IF RequestIdx(seq, {"request_update_audio_level"}) = {} THEN "None"
    ELSE LatestRequest(seq, {"request_update_audio_level"}).arg

\* the latest of request_show_recording / request_hide_recording in seq
LastVisibility(seq) ==
    IF RequestIdx(seq, {"request_show_recording", "request_hide_recording"}) = {}
    THEN "None"
    ELSE LatestRequest(seq, {"request_show_recording", "request_hide_recording"}).op

\* C22: a drain returns as level the value of the latest
\* request_update_audio_level call made since the previous drain (None when
\* there was none) and leaves no level pending, so an earlier value is
\* returned neither by this drain nor by a later one.
C22_LevelCoalescing ==
    [][ last'.op = "get_and_clear_pending_operations" =>
          /\ last'.ret[3] = LastLevel(app.qt_bridge.since)
          /\ app'.qt_bridge.pending_audio_level = "None"
          /\ app'.qt_bridge.since = << >> ]_vars

\* C22 witness: request_update_audio_level(0.2), then (0.8), then a drain
\* that returned 0.8.
C22_Witness ==
    /\ last.op = "get_and_clear_pending_operations"
    /\ app.qt_bridge.drained =
          << [op |-> "request_update_audio_level", arg |-> "0.2"],
             [op |-> "request_update_audio_level", arg |-> "0.8"] >>
    /\ last.ret[3] = "0.8"

\* C23: a drain returns show = True, hide = False when the latest show/hide
\* request since the previous drain was request_show_recording, show =
\* False, hide = True when it was request_hide_recording, and both False
\* when there was none; request_update_audio_level leaves the show and hide
\* slots as they are and the show/hide requests leave the level slot.
C23_LatestWins ==
    [][ /\ last'.op = "get_and_clear_pending_operations" =>
              /\ last'.ret[1] =
                    (LastVisibility(app.qt_bridge.since) = "request_show_recording")
              /\ last'.ret[2] =
                    (LastVisibility(app.qt_bridge.since) = "request_hide_recording")
        /\ last'.op = "request_update_audio_level" =>
              /\ app'.qt_bridge.pending_show = app.qt_bridge.pending_show
              /\ app'.qt_bridge.pending_hide = app.qt_bridge.pending_hide
        /\ last'.op \in {"request_show_recording", "request_hide_recording"} =>
              app'.qt_bridge.pending_audio_level = app.qt_bridge.pending_audio_level
      ]_vars

\* C23 witness: show, a level, hide, then a drain that returned hide only,
\* with the level.
C23_Witness ==
    /\ last.op = "get_and_clear_pending_operations"
    /\ app.qt_bridge.drained =
          << [op |-> "request_show_recording", arg |-> "None"],
             [op |-> "request_update_audio_level", arg |-> "0.2"],
             [op |-> "request_hide_recording", arg |-> "None"] >>
    /\ last.ret = <<FALSE, TRUE, "0.2">>

\* the three slots of the bridge
Slots(b) ==
    [pending_show |-> b.pending_show, pending_hide |-> b.pending_hide,
     pending_audio_level |-> b.pending_audio_level]

\* C24: with the listener thread, the audio thread and the UI thread inside
\* the bridge at once, every drain returns the slots as they were at the
\* moment it took the lock and has emptied all three when it returns;
\* whenever no method holds the lock the slots are what the calls made so
\* far give when each runs whole in lock order, so a request shows in
\* exactly one drain unless a later request replaced it, and a drain without
\* a request since the previous one returns (False, False, None).
C24_AtomicDrain ==
    [][ /\ (last'.op = "get_and_clear_pending_operations" /\ last' # last) =>
              last'.ret = app.qt_bridge.expected
        /\ (\E t \in BridgeThreads :
               /\ app.qt_bridge.threads[t].pc = "drain_7"
               /\ app'.qt_bridge.threads[t].pc = "idle") =>
              /\ last'.ret = app.qt_bridge.expected
              /\ Snapshot(app.qt_bridge) = <<FALSE, FALSE, "None">>
        /\ app'.qt_bridge.lock = "None" =>
              Slots(app'.qt_bridge) = app'.qt_bridge.atomic ]_vars

\* C24 witness: a drain returned a level while the listener thread and the
\* audio thread, with a new level, were waiting for the lock.
C24_Witness ==
    /\ last.op = "get_and_clear_pending_operations"
    /\ last.ret = <<TRUE, FALSE, "0.2">>
    /\ app.qt_bridge.lock = "None"
    /\ app.qt_bridge.threads["ui"].pc = "idle"
    /\ app.qt_bridge.threads["hotkey"].pc = "acquire"
    /\ app.qt_bridge.threads["audio"].pc = "acquire"
    /\ app.qt_bridge.threads["audio"].arg = "0.8"

\* C25: when a transcription task reads current_audio to pass it to the
\* engine, current_audio is still the buffer that the stop which launched
\* the task stored: no later _on_stop_recording has assigned it in between,
\* under every interleaving of signals, pause/resume and tasks.
C25_BufferHandedOff ==
    [][ \A id \in TaskIds :
          (app.running[id].site = "run" /\ app'.running[id].site # "run") =>
              /\ app.running[id].launched_by = app.stops
              /\ app.current_audio # "None" ]_vars

\* C26: _on_stop_recording has returned when the task it launched is still
\* before its engine result, and while a task is blocked in the engine
\* and the listener runs, the next signal of the key (start when the last
\* one was stop, stop when it was start) can be delivered and handled; with
\* the machine not ready, or not in RECORDING, it is handled as a no-op.
C26_HotkeyNotStalled ==
    /\ (last.op = "_on_stop_recording" /\ last.target = "PROCESSING") =>
          \E id \in TaskIds : /\ app.running[id].site = "run"
                                /\ app.running[id].launched_by = app.stops
    /\ ((\E id \in TaskIds : app.running[id].site = "run") /\ app.listening) =>
          /\ (~app.hk_recording /\ ~IsReady(current_state)) => ENABLED StartSignal
          /\ (app.hk_recording /\ current_state # "RECORDING") => ENABLED StopSignal

\* C26 witness: a start signal was handled as a no-op in PROCESSING while
\* the task launched by the last stop was still blocked in the engine.
C26_Witness ==
    /\ last.op = "_on_start_recording"
    /\ last.target = "None"
    /\ current_state = "PROCESSING"
    /\ \E id \in TaskIds : /\ app.running[id].site = "run"
                            /\ app.running[id].launched_by = app.stops

\* C27: when a step of initialize_components raises with message m the
\* machine enters ERROR with payload {error: m} and initialisation is over
\* without a transition to IDLE; when every step succeeds initialisation
\* moves the machine INITIALIZING -> IDLE, once, with the hotkey manager,
\* the recorder and the engine set up.
C27_InitOutcome ==
    [][ last'.op \in {"initialize_components:hotkey", "initialize_components"} =>
          /\ last'.target = "ERROR" =>
                /\ current_state' = "ERROR"
                /\ state_data' = {<<"error", InitError>>}
                /\ app'.init = "done"
          /\ last'.target = "IDLE" =>
                /\ current_state = "INITIALIZING"
                /\ current_state' = "IDLE"
                /\ last'.ret = "True"
                /\ app'.init = "done"
                /\ app'.hotkey_manager
                /\ app'.audio_recorder
                /\ app'.whisper_engine = "loaded" ]_vars

\* C28: for every hotkey type and every sequence of key events and Caps
\* Lock readings, a start signal is emitted only when the latest signal
\* before it was a stop or there was none, a stop signal only when the
\* latest signal before it was a start, and with Caps Lock a signal is
\* emitted only by an event whose reading differs from the stored lock
\* state.
C28_Alternation ==
    [][ last'.op \in {"_on_press", "_on_release"} =>
          /\ last'.ret = "start" => app.hotkey.emitted \in {"None", "stop"}
          /\ last'.ret = "stop" => app.hotkey.emitted = "start"
          /\ app'.hotkey.emitted # app.hotkey.emitted => last'.ret = app'.hotkey.emitted
          /\ (app.hotkey.hotkey_type = "caps_lock" /\ last'.ret # "None") =>
                <<"reading", app.hotkey.caps_lock_state>> \notin last'.kwargs ]_vars

\* C28 witness: with option+space a stop was emitted by releasing the space
\* key after a start, while alt is still held.
C28_Witness ==
    /\ last.op = "_on_release"
    /\ last.ret = "stop"
    /\ app.hotkey.hotkey_type = "option+space"
    /\ app.hotkey.pressed_keys = {"alt"}
    /\ ~app.hk_recording

\* C29: under every interleaving of the hotkey thread with the UI thread, a
\* step of _on_stop_recording that starts a transcription task is taken
\* only when the handler's transition_to(PROCESSING) returned True.
C29_TaskOnlyAfterProcessing ==
    [][ (frames["task"].site = "none" /\ frames'["task"].site = "run") =>
          /\ frames["hotkey"].site = "stop_291"
          /\ frames["hotkey"].ret = "True" ]_vars

\* C30: every step of a transcription task that writes the clipboard is
\* taken in COPYING, and its closing transition_to(IDLE) is taken from
\* COPYING; a task step that copies while the machine is not in COPYING
\* leaves the clipboard and current_state as they are.
C30_ClipboardOnlyInCopying ==
    [][ last'.op = "_process_audio:copy" =>
          /\ app'.clipboard # app.clipboard =>
                /\ current_state = "COPYING"
                /\ last'.target = "IDLE" => last'.from = "COPYING"
          /\ current_state # "COPYING" =>
                /\ app'.clipboard = app.clipboard
                /\ current_state' = current_state ]_vars

\* C31: under every interleaving of the bridge methods, whenever no thread
\* is inside a method (the lock is free) pending-show and pending-hide are
\* not both true, and no drain returns show and hide both true.
C31_ShowHideExclusive ==
    /\ app.qt_bridge.lock = "None" =>
          ~(app.qt_bridge.pending_show /\ app.qt_bridge.pending_hide)
    /\ last.op = "get_and_clear_pending_operations" =>
          ~(last.ret[1] /\ last.ret[2])
    /\ \A t \in BridgeThreads :
          app.qt_bridge.threads[t].pc \in {"drain_3", "drain_4", "drain_5", "drain_6", "drain_7"} =>
             ~(app.qt_bridge.threads[t].show /\ app.qt_bridge.threads[t].hide)

\* C31 witness: a hide request has completed while a drain and a level
\* request wait for the lock; hide alone is pending when the lock is free
\* again.
C31_Witness ==
    /\ last.op = "request_hide_recording"
    /\ app.qt_bridge.lock = "None"
    /\ app.qt_bridge.atomic.pending_hide
    /\ app.qt_bridge.pending_hide
    /\ ~app.qt_bridge.pending_show
    /\ app.qt_bridge.threads["ui"].pc = "acquire"
    /\ app.qt_bridge.threads["audio"].pc = "acquire"

\* C32: in every reachable state of the application at most one
\* transcription task has been started and has not yet ended.
C32_OneTaskInFlight ==
    Cardinality({id \in TaskIds : app.running[id].site # "none"}) <= 1

\* C33: in every state between two handlers the recorder's is_recording
\* flag is true only if current_state is RECORDING.
C33_CaptureOnlyInRecording ==
    app.rec_is_recording => current_state = "RECORDING"

\* initialize_components has run to its end without an exception
Initialized ==
    /\ app.init = "done"
    /\ app.hotkey_manager
    /\ app.audio_recorder
    /\ app.whisper_engine = "loaded"

\* C34: in every state between two handlers, once initialize_components
\* has finished successfully, the hotkey listener is stopped exactly when
\* current_state is PAUSED; and every step that moves the machine out of
\* PAUSED is the resume branch of toggle_pause.
C34_PauseConsistency ==
    /\ [](Initialized => (~app.listening <=> current_state = "PAUSED"))
    /\ [][ (Initialized /\ current_state = "PAUSED" /\ current_state' # "PAUSED") =>
            last'.op = "toggle_pause" ]_vars

\* C35: under every interleaving of the hotkey thread, the transcription
\* task, initialisation and the UI thread, whenever no transition_to call
\* is in progress and current_state is not RECORDING, the bridge's
\* pending-show flag is false.
C35_ShowOnlyInRecording ==
    (InFlight = {} /\ current_state # "RECORDING") => ~app.qt_bridge.pending_show

\* C36: the machine is IDLE or RECORDING only when initialize_components
\* has finished successfully, and no step of initialize_components takes
\* the machine out of RECORDING.
C36_ReadyOnlyAfterInit ==
    /\ [](current_state \in {"IDLE", "RECORDING"} => Initialized)
    /\ [][ (last'.op \in {"initialize_components:hotkey", "initialize_components"}
               /\ current_state = "RECORDING") =>
            current_state' = "RECORDING" ]_vars

\* C37: when every started task keeps taking its steps, whenever the
\* machine is in PROCESSING or COPYING it is later in IDLE, ERROR or PAUSED,
\* whatever start and stop signals and pause and resume clicks come in
\* between.
C37_CycleEnds ==
    (current_state \in {"PROCESSING", "COPYING"})
        ~> (current_state \in {"IDLE", "ERROR", "PAUSED"})

\* C37 witness: a task has closed its cycle from COPYING to IDLE after a
\* start signal found the machine busy while it was in PROCESSING.
C37_Witness ==
    /\ last.op = "_process_audio:copy"
    /\ last.from = "COPYING"
    /\ current_state = "IDLE"
    /\ app.hk_recording
    /\ Len(state_history) >= 4
    /\ state_history[Len(state_history) - 1].state = "COPYING"
    /\ state_history[Len(state_history) - 2].state = "PROCESSING"

\* C38: with transition_to calls made one after another, in every
\* reachable state with a non-empty history the last entry's state is
\* current_state, previous_state -> current_state is an allowed edge, the
\* first entry is a state allowed from INITIALIZING, and every two adjacent
\* entries are an allowed edge.
C38_HistoryAgrees ==
    state_history # << >> =>
        /\ state_history[Len(state_history)].state = current_state
        /\ <<previous_state, current_state>> \in AllowedPairs
        /\ <<"INITIALIZING", state_history[1].state>> \in AllowedPairs
        /\ \A i \in 1..(Len(state_history) - 1) :
              <<state_history[i].state, state_history[i + 1].state>> \in AllowedPairs

\* C38 witness: a full history that went through ERROR and back to IDLE
\* and ends in RECORDING.
C38_Witness ==
    /\ Len(state_history) = MaxHist
    /\ current_state = "RECORDING"
    /\ previous_state = "IDLE"
    /\ \E i \in 1..Len(state_history) : state_history[i].state = "ERROR"

\* C39: in every reachable state of the running application current_state
\* is not REFINING and no history entry is REFINING.
C39_NoRefining ==
    /\ current_state # "REFINING"
    /\ \A i \in 1..Len(state_history) : state_history[i].state # "REFINING"

\* C39 witness: a task has left PROCESSING, the one state from which the
\* table allows REFINING, and the machine is in COPYING.
C39_Witness ==
    /\ last.op = "_process_audio:transcribe"
    /\ last.from = "PROCESSING"
    /\ last.ret = "True"
    /\ current_state = "COPYING"
    /\ previous_state = "PROCESSING"

\* C40 as stated: every stop_recording called while recording returns the
\* concatenation, in delivery order, of the chunks delivered since the
\* matching successful start, and None exactly when there were none.
C40_ExactlyOneRecording ==
    [][ (last'.op = "stop_recording" /\ app.recorder.is_recording) =>
          /\ app'.recorder.returned = Concatenate(app.recorder.delivered)
          /\ last'.ret = "None" <=> app.recorder.delivered = << >> ]_vars

\* C40: a stop_recording called while recording, whose stream closes
\* without an exception, returns the concatenation, in delivery order, of
\* the chunks delivered since the matching successful start, and None when
\* there were none; when closing the stream raises it returns None; either
\* way is_recording is false afterwards.  A chunk delivered while
\* is_recording is false is dropped; start_recording while recording
\* returns False and clears nothing; stop_recording while not recording
\* returns None and changes neither is_recording nor the stored chunks.
C40_OneRecording ==
    [][ /\ (last'.op = "stop_recording" /\ app.recorder.is_recording) =>
             /\ ~app'.recorder.is_recording
             /\ app'.recorder.returned =
                   IF last'.target = "True"
                   THEN Concatenate(app.recorder.delivered) ELSE << >>
             /\ last'.ret = "None" <=> app'.recorder.returned = << >>
        /\ (last'.op = "stop_recording" /\ ~app.recorder.is_recording) =>
             /\ last'.ret = "None"
             /\ app'.recorder.is_recording = app.recorder.is_recording
             /\ app'.recorder.audio_data = app.recorder.audio_data
        /\ (last'.op = "start_recording" /\ app.recorder.is_recording) =>
             /\ last'.ret = "False"
             /\ app'.recorder.is_recording
             /\ app'.recorder.audio_data = app.recorder.audio_data
        /\ (last'.op = "_audio_callback" /\ ~app.recorder.is_recording) =>
             app'.recorder.audio_data = app.recorder.audio_data ]_vars

\* C40 witness: a stop returned the three samples of two different chunks
\* in the order the callback delivered them.
C40_Witness ==
    /\ last.op = "stop_recording"
    /\ last.ret = "buffer"
    /\ app.recorder.returned = <<2, 3, 1>>
    /\ app.recorder.delivered = << <<2, 3>>, <<1>> >>
    /\ ~app.recorder.is_recording

====
